---------------------------- MODULE Spec2Model ----------------------------
(***************************************************************************)
(* nodetool-apple: a catalog of adapters ("nodes") that wrap one macOS     *)
(* capability each behind process(context).  The model follows one adapter *)
(* instance from construction (pydantic field validation) through one      *)
(* process call (validation, escaping, the osascript subprocess, parsing   *)
(* of the reply) to its return value or exception.                         *)
(*                                                                         *)
(* Text is modelled as a sequence of one-character strings, so that        *)
(* str.strip, str.split, str.startswith and str.replace are computed       *)
(* character by character as Python computes them.                         *)
(***************************************************************************)
EXTENDS Integers, Sequences, FiniteSets, TLC

VARIABLES
    pc,      \* "idle" | "ready" | "rejected" | "returned" | "raised"
    node,    \* class name of the adapter instance (or function) in hand
    fields,  \* the instance's field values, a record
    calls,   \* subprocess.run invocations made by the current process call
    fsops,   \* file-system operations made by the current process call
    result,  \* the value returned
    error,   \* the exception raised: [type, msg], or NoError
    asked    \* the last is_cacheable() call: [node, value], or NoQuery

vars == <<pc, node, fields, calls, fsops, result, error, asked>>

----------------------------------------------------------------------------
(* Bounds of the model *)

MaxEscLen == 3      \* longest text given to escape_for_applescript
MaxChunks == 2      \* record chunks in a generated osascript reply
VolumeSlack == 2    \* how far outside the accepted range volumes are tried
MaxPaths == 2       \* paths in an mdfind reply, contacts in a framework reply
MaxInputs == 2      \* input paths given to RunShortcut._build_command
MaxListLen == 4     \* characters in a `shortcuts list` output
MaxListed == 2      \* windows and applications the frameworks list

----------------------------------------------------------------------------
(* Characters and Python's str operations *)

BS == "\\"
QT == "\""
NL == "\n"
SP == " "

NoValue == [none |-> TRUE]
NoError == [type |-> "none", msg |-> <<>>]
NoQuery == [node |-> "none", value |-> FALSE]

\* str.isspace for one character
IsSpace(c) == c \in {SP, NL, "\t", "\r"}

RECURSIVE LStrip(_)
LStrip(s) ==
    IF s = <<>> THEN <<>>
    ELSE IF IsSpace(Head(s)) THEN LStrip(Tail(s)) ELSE s

RECURSIVE RStrip(_)
RStrip(s) ==
    IF s = <<>> THEN <<>>
    ELSE IF IsSpace(s[Len(s)]) THEN RStrip(SubSeq(s, 1, Len(s) - 1)) ELSE s

\* str.strip()
Strip(s) == RStrip(LStrip(s))

\* `not s.strip()`
Blank(s) == Strip(s) = <<>>

\* str.lower(), for the capital letters that occur in the texts tried
Capitals == <<"A", "B", "C", "P", "S">>
Smalls == <<"a", "b", "c", "p", "s">>
LowerChar(c) ==
    IF \E i \in 1..Len(Capitals) : Capitals[i] = c
    THEN Smalls[CHOOSE i \in 1..Len(Capitals) : Capitals[i] = c]
    ELSE c
Lower(s) == [i \in 1..Len(s) |-> LowerChar(s[i])]

\* str.startswith
StartsWith(s, p) == Len(s) >= Len(p) /\ SubSeq(s, 1, Len(p)) = p

\* str.find from position i (1-based), 0 when absent
RECURSIVE Find(_, _, _)
Find(s, d, i) ==
    IF i + Len(d) - 1 > Len(s) THEN 0
    ELSE IF SubSeq(s, i, i + Len(d) - 1) = d THEN i
    ELSE Find(s, d, i + 1)

\* str.split(d) for a non-empty separator d: leftmost, non-overlapping
RECURSIVE Split(_, _)
Split(s, d) ==
    LET i == Find(s, d, 1) IN
    IF i = 0 THEN <<s>>
    ELSE <<SubSeq(s, 1, i - 1)>> \o Split(SubSeq(s, i + Len(d), Len(s)), d)

\* str.replace(c, r) for a one-character c
RECURSIVE Replace(_, _, _)
Replace(s, c, r) ==
    IF s = <<>> THEN <<>>
    ELSE (IF Head(s) = c THEN r ELSE <<Head(s)>>) \o Replace(Tail(s), c, r)

\* concatenation of a sequence of texts
RECURSIVE Concat(_)
Concat(ss) == IF ss = <<>> THEN <<>> ELSE Head(ss) \o Concat(Tail(ss))

\* all sequences over alphabet A of length at most n
SeqsUpTo(A, n) == UNION {[1..k -> A] : k \in 0..n}

----------------------------------------------------------------------------
(* Text escaping: nodetool.nodes.apple.notes.escape_for_applescript.  The  *)
(* module notes.py is imported by every adapter file but is not among the  *)
(* sources; the function is modelled from spec section 4.2 and the two     *)
(* assertions of tests/test_escape_for_applescript.py.                     *)

\* a plausible slip: quotes escaped before backslashes
escape_quotes_first(text) ==
    Replace(Replace(Replace(text, QT, <<BS, QT>>), BS, <<BS, BS>>), NL, <<BS, "n">>)

escape_for_applescript(text) ==
    Replace(Replace(Replace(text, BS, <<BS, BS>>), QT, <<BS, QT>>), NL, <<BS, "n">>)

EscChars == {BS, QT, NL, "n", "a"}
EscTexts == SeqsUpTo(EscChars, MaxEscLen)

InitEscape ==
    /\ pc = "ready"
    /\ node = "escape_for_applescript"
    /\ fields \in {[text |-> s] : s \in EscTexts}
    /\ calls = <<>>
    /\ fsops = <<>>
    /\ result = NoValue
    /\ error = NoError
    /\ asked = NoQuery

EscapeCall ==
    /\ pc = "ready"
    /\ node = "escape_for_applescript"
    /\ result' = escape_for_applescript(fields.text)
    /\ pc' = "returned"
    /\ UNCHANGED <<node, fields, calls, fsops, error, asked>>

NextEscape == EscapeCall

SpecEscape == InitEscape /\ [][NextEscape]_vars

\* the image of one character under the escaping rule
EscapeChar(c) ==
    IF c = BS THEN <<BS, BS>>
    ELSE IF c = QT THEN <<BS, QT>>
    ELSE IF c = NL THEN <<BS, "n">>
    ELSE <<c>>

\* C1: the escaped text is the input with every backslash doubled, every
\* double quote preceded by a backslash, every newline turned into backslash
\* 'n' and every other character unchanged; the empty text maps to itself.
C1_EscapeIsCharwise ==
    (pc = "returned" /\ node = "escape_for_applescript") =>
        /\ result = Concat([i \in 1..Len(fields.text) |-> EscapeChar(fields.text[i])])
        /\ (fields.text = <<>> => result = <<>>)

C1_Witness ==
    /\ pc = "returned"
    /\ node = "escape_for_applescript"
    /\ fields.text = <<QT, BS, NL>>
    /\ result = <<BS, QT, BS, BS, BS, "n">>

\* the scripting language's reading of a string literal, left to right
RECURSIVE unescape(_)
unescape(s) ==
    IF s = <<>> THEN <<>>
    ELSE IF Head(s) = BS /\ Len(s) >= 2 /\ s[2] \in {BS, QT, "n"}
         THEN <<(IF s[2] = "n" THEN NL ELSE s[2])>> \o unescape(SubSeq(s, 3, Len(s)))
         ELSE <<Head(s)>> \o unescape(Tail(s))

\* C2: un-escaping the escaped text gives back the input, and no other input
\* escapes to the same output.
C2_RoundTrip ==
    (pc = "returned" /\ node = "escape_for_applescript") =>
        /\ unescape(result) = fields.text
        /\ \A t \in EscTexts : t # fields.text => escape_for_applescript(t) # result

C2_Witness ==
    /\ pc = "returned"
    /\ node = "escape_for_applescript"
    /\ fields.text = <<BS, "n", NL>>
    /\ unescape(result) = <<BS, "n", NL>>

----------------------------------------------------------------------------
(* The script runner.  Every adapter file carries the same _run_osascript: *)
(* subprocess.run(["osascript", "-e", script], check=True,                 *)
(* capture_output=True, text=True).  The child's outcome `proc` is the     *)
(* environment's answer: the executable may be missing (subprocess.run     *)
(* raises FileNotFoundError, which the runner does not catch), or the      *)
(* child exits with a code, a standard output and a standard error.        *)
(* `shape` remembers how a generated reply was put together.               *)

NoShape == [lead |-> "free", chunks |-> <<>>, trail |-> "free"]

Ok(v) == [ok |-> TRUE, value |-> v, error |-> NoError]
Fail(t, m) == [ok |-> FALSE, value |-> NoValue, error |-> [type |-> t, msg |-> m]]

\* a plausible slip: the reply is returned as captured, and a failing exit
\* code is not turned into an error
run_osascript_unchecked(script, proc) ==
    IF ~proc.found THEN Fail("FileNotFoundError", <<"osascript">>)
    ELSE Ok(proc.stdout)

run_osascript(script, proc) ==
    IF ~proc.found THEN Fail("FileNotFoundError", <<"osascript">>)
    ELSE IF proc.exit = 0 THEN Ok(Strip(proc.stdout))
    ELSE Fail("RuntimeError", <<"AppleScript failed: ">> \o proc.stderr)

\* the record of one subprocess.run invocation
OsaCall(script, proc) == [argv |-> <<"osascript", "-e", script>>, proc |-> proc]

\* what one process call did: the subprocesses it started, the file-system
\* operations it made, and how it ended
RanFs(cs, fs, r) ==
    [calls |-> cs, fsops |-> fs, ok |-> r.ok, value |-> r.value, error |-> r.error]
Ran(cs, r) == RanFs(cs, <<>>, r)
Raised(t, m) == Ran(<<>>, Fail(t, m))

----------------------------------------------------------------------------
(* Construction: the host's BaseNode is a pydantic model, so the Field     *)
(* constraints declared in the adapter classes are enforced when an        *)
(* instance is built.                                                      *)

VolumeMin == 0
VolumeMax == 100

\* a plausible slip: the upper limit off by one
volume_ok_loose(v) == v >= VolumeMin /\ v <= VolumeMax + 1

\* volume: int = Field(default=50, ge=0, le=100)
volume_ok(v) == v >= VolumeMin /\ v <= VolumeMax

\* limit: int = Field(default=..., ge=1, le=100) (le=200 for the searches)
LimitMax(n) == IF n \in {"ListConversations", "SearchMessages"} THEN 200 ELSE 100
limit_ok(n, v) == v >= 1 /\ v <= LimitMax(n)

LimitNodes ==
    {"GetRecentMessages", "ListConversations", "SearchMessages", "GetRecentPhotos"}

FieldsValid(n, f) ==
    CASE n \in {"SetSystemVolume", "SetMusicVolume"} -> volume_ok(f.volume)
      [] n \in LimitNodes -> limit_ok(n, f.limit)
      [] n \in {"SpotlightSearch", "SearchContacts"} -> f.limit >= 0
      [] n = "RunShortcut" -> f.timeout_seconds >= 1
      [] n = "PingHost" ->
            f.count >= 1 /\ f.count <= 10 /\ f.timeout >= 1 /\ f.timeout <= 30
      [] OTHER -> TRUE

Construct(n, f) ==
    /\ pc = "idle"
    /\ node' = n
    /\ fields' = f
    /\ IF FieldsValid(n, f)
       THEN pc' = "ready" /\ error' = NoError
       ELSE pc' = "rejected" /\ error' = [type |-> "ValidationError", msg |-> <<>>]
    /\ asked' = NoQuery
    /\ UNCHANGED <<calls, fsops, result>>

\* the instance is dropped; the next invocation starts from nothing
Release ==
    /\ pc \in {"rejected", "returned", "raised"}
    /\ pc' = "idle"
    /\ node' = "none"
    /\ fields' = NoValue
    /\ calls' = <<>>
    /\ fsops' = <<>>
    /\ result' = NoValue
    /\ error' = NoError
    /\ asked' = NoQuery

\* one process call on the instance in hand, ending as `out` says
Process(n, out) ==
    /\ pc = "ready"
    /\ node = n
    /\ calls' = out.calls
    /\ fsops' = out.fsops
    /\ pc' = IF out.ok THEN "returned" ELSE "raised"
    /\ result' = out.value
    /\ error' = out.error
    /\ UNCHANGED <<node, fields, asked>>

----------------------------------------------------------------------------
(* Adapters: each X_run(f, proc) is X.process on an instance with fields f *)
(* when the environment answers the subprocess with proc.                  *)

Script(t, slots) == [template |-> t, slots |-> slots]

\* run the script and, when it succeeds, return v whatever the reply
RunThen(script, proc, v) ==
    LET r == run_osascript(script, proc) IN
    Ran(<<OsaCall(script, proc)>>, IF r.ok THEN Ok(v) ELSE r)

\* a plausible slip: the recipient is tested for emptiness, not blankness
SendMessage_run_noStrip(f, proc) ==
    IF f.recipient = <<>> THEN Raised("ValueError", <<"Recipient is required">>)
    ELSE IF f.text = <<>> THEN Raised("ValueError", <<"Message text is required">>)
    ELSE RunThen(Script("SendMessage",
                        <<escape_for_applescript(f.recipient),
                          escape_for_applescript(f.text)>>), proc, TRUE)

SendMessage_run(f, proc) ==
    IF Blank(f.recipient) THEN Raised("ValueError", <<"Recipient is required">>)
    ELSE IF Blank(f.text) THEN Raised("ValueError", <<"Message text is required">>)
    ELSE RunThen(Script("SendMessage",
                        <<escape_for_applescript(f.recipient),
                          escape_for_applescript(f.text)>>), proc, TRUE)

SendMessage_process(proc) == Process("SendMessage", SendMessage_run(fields, proc))

GetFrontmostApplication_run(f, proc) ==
    LET script == Script("GetFrontmostApplication", <<>>) IN
    Ran(<<OsaCall(script, proc)>>, run_osascript(script, proc))

GetFrontmostApplication_process(proc) ==
    Process("GetFrontmostApplication", GetFrontmostApplication_run(fields, proc))

ERROR == <<"E", "R", "R", "O", "R", ":">>

\* MarkAsRead.process: true unless the script replied "ERROR:..."
MarkAsRead_run(f, proc) ==
    IF Blank(f.participant) THEN Raised("ValueError", <<"Participant is required">>)
    ELSE LET script == Script("MarkAsRead", <<escape_for_applescript(f.participant)>>)
             r == run_osascript(script, proc)
         IN Ran(<<OsaCall(script, proc)>>,
                IF r.ok THEN Ok(~StartsWith(r.value, ERROR)) ELSE r)

MarkAsRead_process(proc) == Process("MarkAsRead", MarkAsRead_run(fields, proc))

RevealInFinder_run(f, proc) ==
    IF Blank(f.path) THEN Raised("ValueError", <<"path is required">>)
    ELSE RunThen(Script("RevealInFinder", <<escape_for_applescript(f.path)>>),
                 proc, TRUE)

RevealInFinder_process(proc) ==
    Process("RevealInFinder", RevealInFinder_run(fields, proc))

OpenApplication_run(f, proc) ==
    IF Blank(f.app_name) THEN Raised("ValueError", <<"app_name is required">>)
    ELSE RunThen(Script("OpenApplication",
                        <<escape_for_applescript(f.app_name),
                          IF f.activate THEN <<"activate">> ELSE <<>> >>),
                 proc, TRUE)

OpenApplication_process(proc) ==
    Process("OpenApplication", OpenApplication_run(fields, proc))

\* the non-empty stripped pieces of a comma-separated list, escaped
RECURSIVE Addresses(_)
Addresses(pieces) ==
    IF pieces = <<>> THEN <<>>
    ELSE LET addr == Strip(Head(pieces)) IN
         (IF addr # <<>> THEN <<escape_for_applescript(addr)>> ELSE <<>>)
             \o Addresses(Tail(pieces))

SendMail_run(f, proc) ==
    IF Blank(f.to) THEN Raised("ValueError", <<"to address is required">>)
    ELSE RunThen(Script("SendMail",
                        [subject |-> escape_for_applescript(f.subject),
                         body |-> escape_for_applescript(f.body),
                         to_recipients |-> Addresses(Split(f.to, <<",">>)),
                         send |-> TRUE]),
                 proc, TRUE)

SendMail_process(proc) == Process("SendMail", SendMail_run(fields, proc))

\* OpenSafariURL.process: the url is escaped and sent as it is
OpenSafariURL_run(f, proc) ==
    RunThen(Script("OpenSafariURL",
                   <<escape_for_applescript(f.url),
                     IF f.activate THEN <<"activate">> ELSE <<>> >>),
            proc, TRUE)

OpenSafariURL_process(proc) ==
    Process("OpenSafariURL", OpenSafariURL_run(fields, proc))

\* AddPhotoToAlbum.process: photo_id goes into the script as given
AddPhotoToAlbum_run(f, proc) ==
    IF Blank(f.photo_id) THEN Raised("ValueError", <<"photo_id is required">>)
    ELSE IF Blank(f.album_name) THEN Raised("ValueError", <<"album_name is required">>)
    ELSE RunThen(Script("AddPhotoToAlbum",
                        <<escape_for_applescript(f.album_name), f.photo_id>>),
                 proc, TRUE)

AddPhotoToAlbum_process(proc) ==
    Process("AddPhotoToAlbum", AddPhotoToAlbum_run(fields, proc))

TempPng == <<"t", "m", "p", ".", "p", "n", "g">>

\* ImportToAlbum.process: the image is written to a NamedTemporaryFile
\* (delete=False), imported by script, and unlinked in the finally clause
ImportToAlbum_run(f, proc) ==
    IF Blank(f.album_name) THEN Raised("ValueError", <<"album_name is required">>)
    ELSE LET script == Script("ImportToAlbum",
                              <<escape_for_applescript(TempPng),
                                escape_for_applescript(f.album_name),
                                IF f.skip_duplicate THEN <<"yes">> ELSE <<"no">> >>)
             r == run_osascript(script, proc)
         IN RanFs(<<OsaCall(script, proc)>>, <<"create", "unlink">>,
                  IF r.ok THEN Ok(TRUE) ELSE r)

ImportToAlbum_process(proc) ==
    Process("ImportToAlbum", ImportToAlbum_run(fields, proc))

\* SetSystemVolume.process
SetSystemVolume_run(f, proc) ==
    RunThen(Script("SetSystemVolume", <<f.volume>>), proc, TRUE)

SetSystemVolume_process(proc) ==
    Process("SetSystemVolume", SetSystemVolume_run(fields, proc))

\* SetMusicVolume.process
SetMusicVolume_run(f, proc) ==
    RunThen(Script("SetMusicVolume", <<f.volume>>), proc, TRUE)

SetMusicVolume_process(proc) ==
    Process("SetMusicVolume", SetMusicVolume_run(fields, proc))

----------------------------------------------------------------------------
(* Delimited replies.  The scripts join fields with "|||" and end each     *)
(* record with "###MSG###", "###CHAT###" or a linefeed; each adapter      *)
(* parses its reply with the same loop.                                    *)

BAR3 == <<"|", "|", "|">>
MSG == <<"#", "#", "#", "M", "S", "G", "#", "#", "#">>
CHAT == <<"#", "#", "#", "C", "H", "A", "T", "#", "#", "#">>
LF == <<NL>>
TRUE_TXT == <<"t", "r", "u", "e">>

\* expected field counts: `if len(parts) >= n`
RecentMessagesFields == 4
SearchMessagesFields == 5
ConversationFields == 4
MailMessageFields == 4
PhotoFields == 3

\* a plausible slip: blank chunks are not skipped and short chunks are
\* padded instead of dropped
RECURSIVE ParseChunks_keepAll(_, _, _)
ParseChunks_keepAll(chunks, fieldDelim, n) ==
    IF chunks = <<>> THEN <<>>
    ELSE LET parts == Split(Head(chunks), fieldDelim) IN
         <<parts \o [i \in 1..n |-> <<>>]>>
             \o ParseChunks_keepAll(Tail(chunks), fieldDelim, n)

\* for chunk in chunks: skip when blank; parts = chunk.split(fieldDelim);
\* keep parts when len(parts) >= n
RECURSIVE ParseChunks(_, _, _)
ParseChunks(chunks, fieldDelim, n) ==
    IF chunks = <<>> THEN <<>>
    ELSE LET chunk == Head(chunks)
             parts == Split(chunk, fieldDelim)
             rest == ParseChunks(Tail(chunks), fieldDelim, n)
         IN IF Blank(chunk) THEN rest
            ELSE IF Len(parts) >= n THEN <<parts>> \o rest
            ELSE rest

\* str.isdigit (ASCII digits) and int()
Digits == <<"0", "1", "2", "3", "4", "5", "6", "7", "8", "9">>
DigitChar(i) == Digits[i + 1]
IsDigit(c) == \E i \in 1..Len(Digits) : Digits[i] = c
DigitValue(c) == (CHOOSE i \in 1..Len(Digits) : Digits[i] = c) - 1
IsDigits(s) == s # <<>> /\ \A i \in 1..Len(s) : IsDigit(s[i])
RECURSIVE ToInt(_)
ToInt(s) ==
    IF s = <<>> THEN 0
    ELSE 10 * ToInt(SubSeq(s, 1, Len(s) - 1)) + DigitValue(s[Len(s)])

\* str(n) for n >= 0
RECURSIVE IntText(_)
IntText(n) ==
    IF n < 10 THEN <<DigitChar(n)>> ELSE IntText(n \div 10) \o <<DigitChar(n % 10)>>

\* [p.strip() for p in text.split(",") if p.strip()]
RECURSIVE StrippedPieces(_)
StrippedPieces(pieces) ==
    IF pieces = <<>> THEN <<>>
    ELSE (IF Blank(Head(pieces)) THEN <<>> ELSE <<Strip(Head(pieces))>>)
             \o StrippedPieces(Tail(pieces))

\* GetRecentMessages.process: no check of participant
GetRecentMessages_run(f, proc) ==
    LET script == Script("GetRecentMessages",
                         <<f.limit, escape_for_applescript(f.participant)>>)
        r == run_osascript(script, proc)
        out == r.value
        rows == ParseChunks(Split(out, MSG), BAR3, RecentMessagesFields)
    IN Ran(<<OsaCall(script, proc)>>,
           IF ~r.ok THEN r
           ELSE IF out = <<>> \/ StartsWith(out, ERROR) THEN Ok(<<>>)
           ELSE Ok([i \in 1..Len(rows) |->
                      [text |-> rows[i][1],
                       sender |-> rows[i][2],
                       date |-> rows[i][3],
                       is_from_me |-> rows[i][4] = TRUE_TXT]]))

GetRecentMessages_process(proc) ==
    Process("GetRecentMessages", GetRecentMessages_run(fields, proc))

ListConversations_run(f, proc) ==
    LET script == Script("ListConversations", <<f.limit>>)
        r == run_osascript(script, proc)
        out == r.value
        rows == ParseChunks(Split(out, CHAT), BAR3, ConversationFields)
    IN Ran(<<OsaCall(script, proc)>>,
           IF ~r.ok THEN r
           ELSE IF out = <<>> \/ StartsWith(out, ERROR) THEN Ok(<<>>)
           ELSE Ok([i \in 1..Len(rows) |->
                      [name |-> rows[i][1],
                       id |-> rows[i][2],
                       participants |-> StrippedPieces(Split(rows[i][3], <<",">>)),
                       message_count |->
                           IF IsDigits(rows[i][4]) THEN ToInt(rows[i][4]) ELSE 0]]))

ListConversations_process(proc) ==
    Process("ListConversations", ListConversations_run(fields, proc))

SearchMessages_run(f, proc) ==
    IF Blank(f.query) THEN Raised("ValueError", <<"Search query is required">>)
    ELSE
    LET script == Script("SearchMessages",
                         <<f.limit, escape_for_applescript(Lower(f.query)),
                           IF Blank(f.participant) THEN <<>>
                           ELSE escape_for_applescript(f.participant)>>)
        r == run_osascript(script, proc)
        out == r.value
        rows == ParseChunks(Split(out, MSG), BAR3, SearchMessagesFields)
    IN Ran(<<OsaCall(script, proc)>>,
           IF ~r.ok THEN r
           ELSE IF out = <<>> \/ StartsWith(out, ERROR) THEN Ok(<<>>)
           ELSE Ok([i \in 1..Len(rows) |->
                      [conversation |-> rows[i][1],
                       text |-> rows[i][2],
                       sender |-> rows[i][3],
                       date |-> rows[i][4],
                       is_from_me |-> rows[i][5] = TRUE_TXT]]))

SearchMessages_process(proc) ==
    Process("SearchMessages", SearchMessages_run(fields, proc))

\* GetSelectedMailMessages.process: no "ERROR:" form
GetSelectedMailMessages_run(f, proc) ==
    LET script == Script("GetSelectedMailMessages", <<>>)
        r == run_osascript(script, proc)
        out == r.value
        rows == ParseChunks(Split(out, MSG), BAR3, MailMessageFields)
    IN Ran(<<OsaCall(script, proc)>>,
           IF ~r.ok THEN r
           ELSE IF out = <<>> THEN Ok(<<>>)
           ELSE Ok([i \in 1..Len(rows) |->
                      [subject |-> rows[i][1],
                       sender |-> rows[i][2],
                       date |-> rows[i][3],
                       content |-> rows[i][4]]]))

GetSelectedMailMessages_process(proc) ==
    Process("GetSelectedMailMessages", GetSelectedMailMessages_run(fields, proc))

\* GetRecentPhotos.process: one record per line
GetRecentPhotos_run(f, proc) ==
    LET script == Script("GetRecentPhotos", <<f.limit>>)
        r == run_osascript(script, proc)
        out == r.value
        rows == ParseChunks(Split(Strip(out), LF), BAR3, PhotoFields)
    IN Ran(<<OsaCall(script, proc)>>,
           IF ~r.ok THEN r
           ELSE IF out = <<>> THEN Ok(<<>>)
           ELSE Ok([i \in 1..Len(rows) |->
                      [filename |-> rows[i][1],
                       date |-> rows[i][2],
                       id |-> rows[i][3]]]))

GetRecentPhotos_process(proc) ==
    Process("GetRecentPhotos", GetRecentPhotos_run(fields, proc))

----------------------------------------------------------------------------
(* The environment: field values given at construction and the outcomes of *)
(* the osascript child.                                                    *)

\* empty, whitespace-only and non-blank values of a text field
TargetTexts == {<<>>, <<SP>>, <<NL, "\t">>, <<"a">>, <<SP, QT, "a">>}

\* comma-separated address lists
AddressLists == TargetTexts \cup {<<",">>, <<SP, ",", SP>>, <<"a", ",", SP, "b">>}

VolumesTried == (VolumeMin - VolumeSlack)..(VolumeMax + VolumeSlack)

NodeFields(n) ==
    CASE n = "SendMessage" ->
            {[recipient |-> r, text |-> t] : r \in TargetTexts, t \in TargetTexts}
      [] n = "SendMail" ->
            {[to |-> t, subject |-> <<"s">>, body |-> <<QT>>, from_account |-> <<>>] :
                t \in AddressLists}
      [] n = "MarkAsRead" -> {[participant |-> t] : t \in TargetTexts}
      [] n = "RevealInFinder" -> {[path |-> t] : t \in TargetTexts}
      [] n = "OpenApplication" ->
            {[app_name |-> t, activate |-> a] : t \in TargetTexts, a \in BOOLEAN}
      [] n = "OpenSafariURL" ->
            {[url |-> t, activate |-> a] : t \in TargetTexts, a \in BOOLEAN}
      [] n = "AddPhotoToAlbum" ->
            {[photo_id |-> i, album_name |-> t] : i \in TargetTexts, t \in TargetTexts}
      [] n = "ImportToAlbum" ->
            {[album_name |-> t, skip_duplicate |-> d] : t \in TargetTexts, d \in BOOLEAN}
      [] n = "GetRecentMessages" ->
            {[participant |-> t, limit |-> l] : t \in TargetTexts, l \in {0, 20, 101}}
      [] n \in {"SetSystemVolume", "SetMusicVolume"} ->
            {[volume |-> v] : v \in VolumesTried}
      [] n = "SearchMessages" ->
            {[query |-> <<"a">>, participant |-> <<>>, limit |-> l] : l \in {0, 50, 201}}
      [] n \in {"ListConversations", "GetRecentPhotos"} ->
            {[limit |-> l] : l \in {0, 10, 101}}
      [] n = "SpotlightSearch" -> {[query |-> <<>>, limit |-> 20, only_in |-> <<>>]}
      [] n = "SearchContacts" ->
            {[query |-> <<>>, limit |-> 10, include_emails |-> TRUE, include_phones |-> TRUE]}
      [] n = "PingHost" -> {[host |-> <<>>, count |-> 1, timeout |-> 5]}
      [] n = "RunShortcut" ->
            {[shortcut |-> <<>>, inputs |-> <<>>, input_text |-> <<>>, output_type |-> <<>>,
              output_mode |-> "text", decode_errors |-> "replace",
              timeout_seconds |-> 120]}
      [] OTHER -> {NoValue}

Executed(x, o, e) ==
    [found |-> TRUE, exit |-> x, stdout |-> o, stderr |-> e, shape |-> NoShape]
NotFound ==
    [found |-> FALSE, exit |-> 0 - 1, stdout |-> <<>>, stderr |-> <<>>, shape |-> NoShape]

Stdouts == {<<>>, <<"o">>, <<SP, "o", SP, "k", NL>>, <<NL, SP>>, ERROR \o <<"x">>}
Stderrs == {<<>>, <<"e", "r", "r", NL>>}

Procs ==
    {Executed(0, o, <<>>) : o \in Stdouts}
        \cup {Executed(x, <<"o">>, e) : x \in {1, 2}, e \in Stderrs}
        \cup {NotFound}

\* Generated replies: up to MaxChunks chunks joined by the record delimiter,
\* each chunk a list of fields joined by "|||".  A chunk has one field, one
\* field too few, the expected number n, or one too many; field i carries the
\* digit i, bare or padded with spaces, or is empty, or the last expected
\* field reads "true".  The reply may start with "ERROR:" and may end with a
\* record delimiter.
ChunkKinds == {"single", "short", "exact", "long"}
FieldStyles == {"plain", "padded", "empty", "flag"}
ChunkShapes == [kind : ChunkKinds, style : FieldStyles]
Shapes ==
    [lead : {"none", "error"},
     chunks : SeqsUpTo(ChunkShapes, MaxChunks),
     trail : {"none", "delim"}]

FieldCount(kind, n) ==
    CASE kind = "single" -> 1
      [] kind = "short" -> n - 1
      [] kind = "exact" -> n
      [] kind = "long" -> n + 1

FieldText(style, i, n) ==
    CASE style = "plain" -> <<DigitChar(i)>>
      [] style = "padded" -> <<SP, DigitChar(i), SP>>
      [] style = "empty" -> <<>>
      [] style = "flag" -> IF i = n THEN TRUE_TXT ELSE <<DigitChar(i)>>

ChunkFields(c, n) == [i \in 1..FieldCount(c.kind, n) |-> FieldText(c.style, i, n)]

RECURSIVE Join(_, _)
Join(ss, d) ==
    IF ss = <<>> THEN <<>>
    ELSE IF Len(ss) = 1 THEN ss[1]
    ELSE ss[1] \o d \o Join(Tail(ss), d)

Render(sh, recDelim, n) ==
    (IF sh.lead = "error" THEN ERROR ELSE <<>>)
        \o Join([i \in 1..Len(sh.chunks) |-> Join(ChunkFields(sh.chunks[i], n), BAR3)],
                recDelim)
        \o (IF sh.trail = "delim" THEN recDelim ELSE <<>>)

Replies(recDelim, n) ==
    {[found |-> TRUE, exit |-> 0, stdout |-> Render(sh, recDelim, n),
      stderr |-> <<>>, shape |-> sh] : sh \in Shapes}

----------------------------------------------------------------------------
(* Specifications *)

InitIdle ==
    /\ pc = "idle"
    /\ node = "none"
    /\ fields = NoValue
    /\ calls = <<>>
    /\ fsops = <<>>
    /\ result = NoValue
    /\ error = NoError
    /\ asked = NoQuery

Init == InitIdle

Nodes ==
    {"SendMessage", "SendMail", "MarkAsRead", "RevealInFinder", "OpenApplication",
     "OpenSafariURL", "AddPhotoToAlbum", "ImportToAlbum", "GetRecentMessages",
     "SetSystemVolume", "SetMusicVolume", "GetFrontmostApplication"}

Next ==
    \/ \E n \in Nodes : \E f \in NodeFields(n) : Construct(n, f)
    \/ \E proc \in Procs : SendMessage_process(proc)
    \/ \E proc \in Procs : SendMail_process(proc)
    \/ \E proc \in Procs : MarkAsRead_process(proc)
    \/ \E proc \in Procs : RevealInFinder_process(proc)
    \/ \E proc \in Procs : OpenApplication_process(proc)
    \/ \E proc \in Procs : OpenSafariURL_process(proc)
    \/ \E proc \in Procs : AddPhotoToAlbum_process(proc)
    \/ \E proc \in Procs : ImportToAlbum_process(proc)
    \/ \E proc \in Procs : GetRecentMessages_process(proc)
    \/ \E proc \in Procs : SetSystemVolume_process(proc)
    \/ \E proc \in Procs : SetMusicVolume_process(proc)
    \/ \E proc \in Procs : GetFrontmostApplication_process(proc)
    \/ Release

Spec == Init /\ [][Next]_vars

\* the adapters that parse a delimited reply, on generated replies; a reply
\* is drawn only once an instance is there to run
ParseFields(n) ==
    CASE n = "GetRecentMessages" -> [participant |-> <<"a">>, limit |-> 20]
      [] n = "SearchMessages" -> [query |-> <<"a">>, participant |-> <<>>, limit |-> 50]
      [] n = "ListConversations" -> [limit |-> 50]
      [] n = "GetRecentPhotos" -> [limit |-> 10]
      [] OTHER -> NoValue

ParseNodes ==
    {"GetRecentMessages", "SearchMessages", "ListConversations",
     "GetSelectedMailMessages", "GetRecentPhotos"}

NextParse ==
    \/ \E n \in ParseNodes : Construct(n, ParseFields(n))
    \/ pc = "ready" /\ \E proc \in Replies(MSG, RecentMessagesFields) :
            GetRecentMessages_process(proc)
    \/ pc = "ready" /\ \E proc \in Replies(MSG, SearchMessagesFields) :
            SearchMessages_process(proc)
    \/ pc = "ready" /\ \E proc \in Replies(CHAT, ConversationFields) :
            ListConversations_process(proc)
    \/ pc = "ready" /\ \E proc \in Replies(MSG, MailMessageFields) :
            GetSelectedMailMessages_process(proc)
    \/ pc = "ready" /\ \E proc \in Replies(LF, PhotoFields) :
            GetRecentPhotos_process(proc)
    \/ Release

SpecParse == InitIdle /\ [][NextParse]_vars

----------------------------------------------------------------------------
(* Claims about the script runner and about validation (Spec)              *)

Finished == pc \in {"returned", "raised"}

AllSpace(s) == \A i \in 1..Len(s) : IsSpace(s[i])

\* r is s without its leading and trailing whitespace
IsTrimOf(r, s) ==
    /\ (r # <<>> => ~IsSpace(r[1]) /\ ~IsSpace(r[Len(r)]))
    /\ \E i \in 0..Len(s) : \E j \in 0..(Len(s) - i) :
          /\ r = SubSeq(s, i + 1, Len(s) - j)
          /\ AllSpace(SubSeq(s, 1, i))
          /\ AllSpace(SubSeq(s, Len(s) - j + 1, Len(s)))

EndsWith(s, t) == Len(s) >= Len(t) /\ SubSeq(s, Len(s) - Len(t) + 1, Len(s)) = t

\* C3: the script runner starts one `osascript -e <script>` child; on exit
\* code zero it returns the standard output without leading and trailing
\* whitespace; on a non-zero exit code it returns nothing and fails with an
\* error whose message carries the standard-error text.
C3_RunnerContract ==
    (Finished /\ node = "GetFrontmostApplication") =>
        /\ Len(calls) = 1
        /\ Len(calls[1].argv) = 3
        /\ calls[1].argv[1] = "osascript"
        /\ calls[1].argv[2] = "-e"
        /\ calls[1].argv[3].template = "GetFrontmostApplication"
        /\ LET p == calls[1].proc IN
           /\ (p.found /\ p.exit = 0) =>
                 pc = "returned" /\ IsTrimOf(result, p.stdout)
           /\ (p.found /\ p.exit # 0) =>
                 /\ pc = "raised"
                 /\ result = NoValue
                 /\ error.type = "RuntimeError"
                 /\ EndsWith(error.msg, p.stderr)

C3_Witness ==
    /\ pc = "returned"
    /\ node = "GetFrontmostApplication"
    /\ calls[1].proc.stdout = <<SP, "o", SP, "k", NL>>
    /\ result = <<"o", SP, "k">>

\* the required destination fields the claim names
RequiredFields(n) ==
    CASE n = "SendMessage" -> {"recipient", "text"}
      [] n = "SendMail" -> {"to"}
      [] n = "MarkAsRead" -> {"participant"}
      [] n = "RevealInFinder" -> {"path"}
      [] n = "OpenApplication" -> {"app_name"}
      [] OTHER -> {}

\* C4: an adapter with a required destination field raises a validation
\* error when that field is empty or whitespace-only, and then starts no
\* subprocess during that process call.
C4_BlankFieldRejected ==
    (Finished /\ \E k \in RequiredFields(node) : AllSpace(fields[k])) =>
        /\ pc = "raised"
        /\ error.type = "ValueError"
        /\ calls = <<>>

C4_Witness ==
    /\ pc = "raised"
    /\ node = "SendMessage"
    /\ fields.recipient = <<NL, "\t">>
    /\ fields.text = <<"a">>
    /\ error.type = "ValueError"
    /\ calls = <<>>

\* the field that names the target of the request, per adapter
TargetFields(n) ==
    CASE n = "GetRecentMessages" -> {"participant"}
      [] n = "OpenSafariURL" -> {"url"}
      [] n = "AddPhotoToAlbum" -> {"album_name"}
      [] n = "ImportToAlbum" -> {"album_name"}
      [] OTHER -> RequiredFields(n)

\* C5: every adapter checks its required fields before it builds a script,
\* so none runs osascript with an empty target: GetRecentMessages with an
\* empty participant, OpenSafariURL with an empty url and AddPhotoToAlbum /
\* ImportToAlbum with an empty album fail with an error instead.
C5_NoEmptyTargetSent ==
    (Finished /\ \E k \in TargetFields(node) : AllSpace(fields[k])) =>
        /\ pc = "raised"
        /\ error.type = "ValueError"
        /\ calls = <<>>

\* C8: a volume field accepts exactly the integers 0..100: construction with
\* a volume outside fails with a validation error, so no process call and no
\* external call is ever made with such a volume; accepted volumes are
\* stored unchanged.
C8_VolumeRange ==
    (node \in {"SetSystemVolume", "SetMusicVolume"}) =>
        /\ (pc = "rejected") <=> (fields.volume < 0 \/ fields.volume > 100)
        /\ (pc = "rejected") => (error.type = "ValidationError" /\ calls = <<>>)
        /\ Finished => fields.volume \in 0..100
        /\ \A i \in 1..Len(calls) :
              /\ calls[i].argv[3].slots[1] = fields.volume
              /\ calls[i].argv[3].slots[1] \in 0..100

C8_Witness ==
    /\ node = "SetSystemVolume"
    /\ pc = "rejected"
    /\ fields.volume = 101
    /\ calls = <<>>

----------------------------------------------------------------------------
(* Claims about the delimited-output parser (SpecParse)                    *)

\* the record delimiter and the expected field count of each parsing adapter
RecordDelim(n) ==
    CASE n = "ListConversations" -> CHAT
      [] n = "GetRecentPhotos" -> LF
      [] OTHER -> MSG

ExpectedFields(n) ==
    CASE n = "GetRecentMessages" -> RecentMessagesFields
      [] n = "SearchMessages" -> SearchMessagesFields
      [] n = "ListConversations" -> ConversationFields
      [] n = "GetSelectedMailMessages" -> MailMessageFields
      [] n = "GetRecentPhotos" -> PhotoFields

\* the adapters whose script answers "ERROR:<message>" when it fails
ErrorFormNodes == {"GetRecentMessages", "SearchMessages", "ListConversations"}

\* the text fields of a returned record, in the order of the reply
Row(n, rec) ==
    CASE n = "GetRecentMessages" -> <<rec.text, rec.sender, rec.date>>
      [] n = "SearchMessages" -> <<rec.conversation, rec.text, rec.sender, rec.date>>
      [] n = "ListConversations" -> <<rec.name, rec.id>>
      [] n = "GetSelectedMailMessages" ->
            <<rec.subject, rec.sender, rec.date, rec.content>>
      [] n = "GetRecentPhotos" -> <<rec.filename, rec.date, rec.id>>

\* The chunks of a generated reply, each as its list of fields, as the reply
\* was put together: an "ERROR:" lead is part of the first field, and a
\* trailing record delimiter is followed by an empty chunk.
ReplyChunks(sh, n) ==
    LET body == IF sh.chunks = <<>> THEN << << <<>> >> >>
                ELSE [i \in 1..Len(sh.chunks) |-> ChunkFields(sh.chunks[i], n)]
        led == IF sh.lead = "error"
               THEN [body EXCEPT ![1] = [@ EXCEPT ![1] = ERROR \o @]]
               ELSE body
    IN IF sh.trail = "delim" THEN Append(led, << <<>> >>) ELSE led

\* a chunk is empty or whitespace-only: one field, all of it whitespace
BlankChunk(fs) == Len(fs) = 1 /\ AllSpace(fs[1])

\* the chunks the claim keeps: not blank, and with at least n fields
KeptChunks(sh, n) ==
    SelectSeq(ReplyChunks(sh, n), LAMBDA fs : ~BlankChunk(fs) /\ Len(fs) >= n)

\* the returned records are the kept chunks, in order, field by field (up to
\* surrounding whitespace)
RecordsAreKeptChunks(n, sh) ==
    LET kept == KeptChunks(sh, ExpectedFields(n)) IN
    /\ Len(result) = Len(kept)
    /\ \A i \in 1..Len(result) :
          LET row == Row(n, result[i]) IN
          \A j \in 1..Len(row) : Strip(row[j]) = Strip(kept[i][j])

Parsed ==
    /\ pc = "returned"
    /\ node \in ParseNodes
    /\ calls[1].proc.shape.lead # "free"

C7_FieldsTrimmed ==
    Parsed =>
        \A i \in 1..Len(result) :
            LET row == Row(node, result[i]) IN
            \A j \in 1..Len(row) : IsTrimOf(row[j], row[j])

----------------------------------------------------------------------------
(* Cacheability.  Every adapter class overrides the classmethod            *)
(* is_cacheable() with a constant; CaptureScreen alone inherits the host's *)
(* default and is left out.                                                *)

Catalog ==
    {"GetClipboardText", "SetClipboardText", "GetClipboardImage", "SetClipboardImage",
     "SearchContacts", "GetContactByIdentifier",
     "GetSelectedFinderItems", "GetFrontFinderWindow", "RevealInFinder", "MoveToTrash",
     "SetFinderTag", "GetFinderTag", "OpenFinderWindow", "GetDesktopPath",
     "GetDownloadsPath", "GetDocumentsPath",
     "CreateMailDraft", "GetSelectedMailMessages", "GetUnreadMailCount",
     "ListMailAccounts", "SendMail",
     "SendMessage", "GetRecentMessages", "ListConversations", "GetUnreadMessageCount",
     "SearchMessages", "MarkAsRead", "MarkAsUnread", "GetConversationDetails",
     "SendAttachment", "GetLatestMessage",
     "GetCurrentTrack", "MusicControl", "GetMusicPlayerState", "SetMusicVolume",
     "GetMusicVolume", "SearchMusic", "PlayTrackById",
     "GetWiFiStatus", "GetPublicIP", "GetLocalIP", "GetHostname", "PingHost",
     "PostNotification",
     "ImportToPhotos", "GetPhotosAlbums", "GetRecentPhotos", "CreatePhotosAlbum",
     "AddPhotoToAlbum", "ImportToAlbum", "GetPhotosInAlbum",
     "GetFrontSafariTab", "OpenSafariURL", "SafariSelectionText", "SafariPageText",
     "ListShortcuts", "RunShortcut",
     "SpotlightSearch", "SpotlightMetadata",
     "GetSystemVolume", "SetSystemVolume", "GetMuteState", "SetMuteState",
     "GetDarkMode", "SetDarkMode", "SleepDisplay", "GetBatteryStatus",
     "ListRunningApplications", "OpenApplication", "QuitApplication",
     "GetFrontmostApplication", "EmptyTrash",
     "DetectLanguage", "SpellCheck", "WordCount", "ConvertTextCase", "ExtractURLs",
     "ExtractEmails",
     "OCRImage",
     "GetWindowList", "CaptureWindow", "GetScreenResolution", "GetActiveWindow",
     "ListApplications", "FocusApplication"}

\* adapters whose process changes something outside: sends, sets, opens,
\* imports, moves, activates
SideEffectNodes ==
    {"SetClipboardText", "SetClipboardImage",
     "RevealInFinder", "MoveToTrash", "SetFinderTag", "OpenFinderWindow",
     "CreateMailDraft", "SendMail",
     "SendMessage", "MarkAsRead", "MarkAsUnread", "SendAttachment",
     "MusicControl", "SetMusicVolume", "PlayTrackById",
     "PostNotification",
     "ImportToPhotos", "CreatePhotosAlbum", "AddPhotoToAlbum", "ImportToAlbum",
     "OpenSafariURL", "RunShortcut",
     "SetSystemVolume", "SetMuteState", "SetDarkMode", "SleepDisplay",
     "OpenApplication", "QuitApplication", "EmptyTrash",
     "FocusApplication"}

\* adapters whose process reads real-time state: the open window list
\* (CGWindowListCopyWindowInfo), the running applications
\* (runningApplications, System Events processes), the frontmost
\* application, the clipboard, unread counts, the player state
VolatileStateNodes ==
    {"GetWindowList", "CaptureWindow", "GetActiveWindow",
     "ListApplications", "ListRunningApplications", "FocusApplication",
     "GetFrontmostApplication",
     "GetClipboardText", "GetClipboardImage",
     "GetUnreadMessageCount", "GetUnreadMailCount", "GetConversationDetails",
     "GetMusicPlayerState", "GetCurrentTrack"}

\* the classes whose is_cacheable returns True
CacheableNodes ==
    {"SearchContacts", "GetContactByIdentifier",
     "GetDesktopPath", "GetDownloadsPath", "GetDocumentsPath",
     "SearchMusic", "GetHostname", "SpotlightSearch", "SpotlightMetadata",
     "DetectLanguage", "SpellCheck", "WordCount", "ConvertTextCase", "ExtractURLs",
     "ExtractEmails", "OCRImage",
     "GetWindowList", "GetScreenResolution", "ListApplications"}

\* a plausible change: the flag follows the stated rule, so the adapters
\* that read real-time state stop being cacheable
IsCacheable_byRule(n) ==
    n \in CacheableNodes /\ n \notin (SideEffectNodes \cup VolatileStateNodes)

IsCacheable(n) == n \in CacheableNodes

\* cls.is_cacheable(), on the class or on the instance in hand
is_cacheable(n) ==
    /\ pc \in {"idle", "ready"}
    /\ pc = "ready" => node = n
    /\ asked' = [node |-> n, value |-> IsCacheable(n)]
    /\ UNCHANGED <<pc, node, fields, calls, fsops, result, error>>

NextCache ==
    \/ \E n \in Catalog : \E f \in NodeFields(n) : Construct(n, f)
    \/ \E n \in Catalog : is_cacheable(n)
    \/ Release

SpecCache == InitIdle /\ [][NextCache]_vars

\* C9: the flag follows one rule in the whole catalog: it is false for every
\* adapter that has an observable side effect or reads volatile real-time
\* state, and true only for pure queries over stable data.
C9_CacheableFollowsRule ==
    (asked.node \in (SideEffectNodes \cup VolatileStateNodes)) => ~asked.value

\* the values the tests fix
TestedCacheable ==
    {"GetDesktopPath", "GetDownloadsPath", "SearchMusic", "WordCount", "ExtractURLs",
     "DetectLanguage", "SpotlightSearch", "GetScreenResolution", "GetWindowList",
     "ListApplications"}
TestedNotCacheable ==
    {"GetSystemVolume", "SetSystemVolume", "GetDarkMode", "RevealInFinder",
     "GetCurrentTrack", "SendMessage", "ListShortcuts", "RunShortcut",
     "GetActiveWindow", "CaptureWindow", "FocusApplication", "GetClipboardText",
     "SetClipboardText"}

\* C10: is_cacheable() returns, on every call and whatever the field values,
\* the value the tests fix for the class.
C10_CacheableAsTested ==
    /\ asked.node \in TestedCacheable => asked.value
    /\ asked.node \in TestedNotCacheable => ~asked.value

C10_Witness ==
    /\ pc = "ready"
    /\ node = "SetSystemVolume"
    /\ fields.volume = 100
    /\ asked = [node |-> "SetSystemVolume", value |-> FALSE]

----------------------------------------------------------------------------
(* The shortcuts CLI adapters: the two static helpers.                     *)

CR == "\r"

\* one literal word of an argument vector
Word(w) == <<w>>

\* a plausible slip: the output type is appended after the inputs, and also
\* when it is empty
build_command_typeLast(shortcut, input_paths, output_path, output_type) ==
    <<Word("shortcuts"), Word("run"), shortcut, Word("--output-path"), output_path>>
        \o Concat([i \in 1..Len(input_paths) |-> <<Word("--input-path"), input_paths[i]>>])
        \o <<Word("--output-type"), output_type>>

\* RunShortcut._build_command
build_command(shortcut, input_paths, output_path, output_type) ==
    LET cmd == <<Word("shortcuts"), Word("run"), shortcut,
                 Word("--output-path"), output_path>>
        typed == IF output_type # <<>>
                 THEN cmd \o <<Word("--output-type"), output_type>>
                 ELSE cmd
    IN typed \o Concat([i \in 1..Len(input_paths) |->
                            <<Word("--input-path"), input_paths[i]>>])

\* position of the first line boundary of s, 0 when there is none
RECURSIVE LineBreak(_, _)
LineBreak(s, i) ==
    IF i > Len(s) THEN 0
    ELSE IF s[i] \in {NL, CR} THEN i
    ELSE LineBreak(s, i + 1)

\* str.splitlines(): boundaries are "\n", "\r" and "\r\n"; the boundary is
\* dropped and a final boundary opens no further line
RECURSIVE SplitLines(_)
SplitLines(s) ==
    IF s = <<>> THEN <<>>
    ELSE LET i == LineBreak(s, 1) IN
         IF i = 0 THEN <<s>>
         ELSE LET w == IF s[i] = CR /\ i < Len(s) /\ s[i + 1] = NL THEN 2 ELSE 1
              IN <<SubSeq(s, 1, i - 1)>> \o SplitLines(SubSeq(s, i + w, Len(s)))

\* a plausible slip: the lines are stripped but the blank ones are kept
parse_shortcuts_list_keepBlank(output) ==
    LET lines == SplitLines(output) IN [i \in 1..Len(lines) |-> Strip(lines[i])]

\* ListShortcuts._parse_shortcuts_list:
\* [line.strip() for line in output.splitlines() if line.strip()]
parse_shortcuts_list(output) == StrippedPieces(SplitLines(output))

ShortcutNames == {<<>>, <<"M", SP, "S">>, <<"s">>}
PathNames == {<<"a">>, <<"b">>}
OutputTypes == {<<>>, <<"t">>}
ListChars == {"a", "b", SP, NL, CR}

InitHelpers ==
    /\ pc = "ready"
    /\ \/ /\ node = "_build_command"
          /\ fields \in [shortcut : ShortcutNames,
                         input_paths : SeqsUpTo(PathNames, MaxInputs),
                         output_path : {<<"o">>},
                         output_type : OutputTypes]
       \/ /\ node = "_parse_shortcuts_list"
          /\ fields \in {[output |-> o] : o \in SeqsUpTo(ListChars, MaxListLen)}
    /\ calls = <<>>
    /\ fsops = <<>>
    /\ result = NoValue
    /\ error = NoError
    /\ asked = NoQuery

BuildCommandCall ==
    /\ pc = "ready"
    /\ node = "_build_command"
    /\ result' = build_command(fields.shortcut, fields.input_paths,
                               fields.output_path, fields.output_type)
    /\ pc' = "returned"
    /\ UNCHANGED <<node, fields, calls, fsops, error, asked>>

ParseListCall ==
    /\ pc = "ready"
    /\ node = "_parse_shortcuts_list"
    /\ result' = parse_shortcuts_list(fields.output)
    /\ pc' = "returned"
    /\ UNCHANGED <<node, fields, calls, fsops, error, asked>>

NextHelpers == BuildCommandCall \/ ParseListCall

SpecHelpers == InitHelpers /\ [][NextHelpers]_vars

\* C17: the argument vector is shortcuts, run, the shortcut name as one
\* argument, --output-path and the output path; then --output-type and the
\* type only when the type is non-empty; then one --input-path pair per input
\* path, in the order given.
C17_BuildCommand ==
    (pc = "returned" /\ node = "_build_command") =>
        LET typed == IF fields.output_type # <<>> THEN 1 ELSE 0
            base == 5 + 2 * typed
            n == Len(fields.input_paths)
        IN /\ Len(result) = base + 2 * n
           /\ SubSeq(result, 1, 2) = <<Word("shortcuts"), Word("run")>>
           /\ result[3] = fields.shortcut
           /\ result[4] = Word("--output-path")
           /\ result[5] = fields.output_path
           /\ typed = 1 =>
                (result[6] = Word("--output-type") /\ result[7] = fields.output_type)
           /\ \A i \in 1..n :
                /\ result[base + 2 * i - 1] = Word("--input-path")
                /\ result[base + 2 * i] = fields.input_paths[i]

C17_Witness ==
    /\ pc = "returned"
    /\ node = "_build_command"
    /\ fields.shortcut = <<"M", SP, "S">>
    /\ fields.output_type = <<"t">>
    /\ fields.input_paths = <<<<"a">>, <<"b">>>>
    /\ Len(result) = 11

\* the text with "\r\n" and "\r" read as "\n"
RECURSIVE UnixLines(_)
UnixLines(s) ==
    IF s = <<>> THEN <<>>
    ELSE IF Head(s) = CR
         THEN <<NL>> \o UnixLines(IF Len(s) >= 2 /\ s[2] = NL
                                  THEN SubSeq(s, 3, Len(s)) ELSE Tail(s))
         ELSE <<Head(s)>> \o UnixLines(Tail(s))

\* the members of a sequence that are not blank, in order
RECURSIVE NonBlank(_)
NonBlank(ss) ==
    IF ss = <<>> THEN <<>>
    ELSE (IF AllSpace(Head(ss)) THEN <<>> ELSE <<Head(ss)>>) \o NonBlank(Tail(ss))

\* C18: the result is the lines of the output, without the empty and the
\* whitespace-only ones, each without surrounding whitespace, in their
\* original order; every returned name is non-empty.
C18_ParseShortcutsList ==
    (pc = "returned" /\ node = "_parse_shortcuts_list") =>
        LET kept == NonBlank(Split(UnixLines(fields.output), <<NL>>)) IN
        /\ Len(result) = Len(kept)
        /\ \A i \in 1..Len(result) :
             /\ IsTrimOf(result[i], kept[i])
             /\ result[i] # <<>>

C18_Witness ==
    /\ pc = "returned"
    /\ node = "_parse_shortcuts_list"
    /\ fields.output = <<SP, "a", CR, NL>>
    /\ result = <<<<"a">>>>

----------------------------------------------------------------------------
(* Adapters that start a command of their own with subprocess.run, or call *)
(* a framework.  The child's outcome carries, besides what the script      *)
(* runner's outcomes carry, the time the child needs; `shape` remembers    *)
(* the items a generated reply was rendered from.  Messages are written    *)
(* without the backquotes the source puts around tool names.               *)

ToolRan(d, x, o, e, items) ==
    [found |-> TRUE, exit |-> x, stdout |-> o, stderr |-> e,
     shape |-> [items |-> items], duration |-> d]
ToolMissing ==
    [found |-> FALSE, exit |-> 0 - 1, stdout |-> <<>>, stderr |-> <<>>,
     shape |-> [items |-> <<>>], duration |-> 0]

\* how subprocess.run(cmd, check=check, timeout=budget) ends; budget 0
\* stands for a call without timeout
Outcome(proc, check, budget) ==
    IF ~proc.found THEN "FileNotFoundError"
    ELSE IF budget > 0 /\ proc.duration > budget THEN "TimeoutExpired"
    ELSE IF check /\ proc.exit # 0 THEN "CalledProcessError"
    ELSE "completed"

CmdCall(argv, proc) == [argv |-> argv, proc |-> proc]

\* lst[:n] for n >= 0
Take(lst, n) == SubSeq(lst, 1, IF n < Len(lst) THEN n ELSE Len(lst))

NUL == "NUL"
HOME == <<"/", "h">>

\* Path(p).expanduser() for the paths tried: a leading "~" becomes the home
\* directory
ExpandUser(p) ==
    IF p # <<>> /\ Head(p) = "~" /\ (Len(p) = 1 \/ p[2] = "/") THEN HOME \o Tail(p) ELSE p

\* [p for p in out.split(NUL) if p], then [p for p in paths if p.strip()]
RECURSIVE NonEmptyPieces(_)
NonEmptyPieces(ps) ==
    IF ps = <<>> THEN <<>>
    ELSE (IF Head(ps) = <<>> \/ Blank(Head(ps)) THEN <<>> ELSE <<Head(ps)>>)
             \o NonEmptyPieces(Tail(ps))

\* SpotlightSearch._run_mdfind
run_mdfind(query, only_in, proc) ==
    LET cmd == <<Word("mdfind"), Word("-0")>>
                   \o (IF only_in # <<>> THEN <<Word("-onlyin"), only_in>> ELSE <<>>)
                   \o <<query>>
        how == Outcome(proc, TRUE, 0)
    IN Ran(<<CmdCall(cmd, proc)>>,
           CASE how = "FileNotFoundError" ->
                    Fail("RuntimeError", <<"mdfind not found (this node requires macOS).">>)
             [] how = "CalledProcessError" ->
                    Fail("RuntimeError", <<"Spotlight search failed: ">> \o proc.stderr)
             [] OTHER -> Ok(NonEmptyPieces(Split(proc.stdout, <<NUL>>))))

\* a plausible slip: the query is not checked before the search
SpotlightSearch_run_unchecked(f, proc) ==
    LET r == run_mdfind(f.query, ExpandUser(Strip(f.only_in)), proc) IN
    IF r.ok /\ f.limit # 0 THEN [r EXCEPT !.value = Take(r.value, f.limit)] ELSE r

\* SpotlightSearch.process
SpotlightSearch_run(f, proc) ==
    IF Blank(f.query) THEN Ran(<<>>, Ok(<<>>))
    ELSE LET r == run_mdfind(f.query, ExpandUser(Strip(f.only_in)), proc) IN
         IF r.ok /\ f.limit # 0 THEN [r EXCEPT !.value = Take(r.value, f.limit)] ELSE r

\* SearchContacts._contact_to_dict, for a contact the framework returned
contact_to_dict(c, include_emails, include_phones) ==
    [identifier |-> c,
     emails |-> IF include_emails THEN <<c \o <<"@">>>> ELSE <<>>,
     phones |-> IF include_phones THEN <<c \o <<"1">>>> ELSE <<>>]

\* SearchContacts.process: proc is the Contacts framework's answer; found
\* says whether the module could be imported, a non-zero exit that the call
\* returned an error object
SearchContacts_run(f, proc) ==
    IF ~proc.found
    THEN Raised("RuntimeError",
                <<"Contacts framework is not available. Install pyobjc-framework-Contacts.">>)
    ELSE IF Blank(f.query) THEN Ran(<<>>, Ok(<<>>))
    ELSE LET call == CmdCall(<<Word("unifiedContactsMatchingPredicate"), f.query>>, proc)
             items == proc.shape.items
             results == [i \in 1..Len(items) |->
                            contact_to_dict(items[i], f.include_emails, f.include_phones)]
         IN IF proc.exit # 0
            THEN Ran(<<call>>, Fail("RuntimeError",
                                    <<"Contacts search failed: ">> \o proc.stderr))
            ELSE Ran(<<call>>, Ok(IF f.limit # 0 THEN Take(results, f.limit) ELSE results))

\* replies: up to MaxPaths items, each followed by the terminator
ItemsTried == SeqsUpTo({<<"a">>, <<"b">>, <<SP>>}, MaxPaths)
Terminated(items, term) == Concat([i \in 1..Len(items) |-> items[i] \o term])

MdfindProcs ==
    {ToolMissing}
        \cup {ToolRan(1, 1, <<>>, e, <<>>) : e \in Stderrs}
        \cup {ToolRan(1, 0, Terminated(items, <<NUL>>), <<>>, items) : items \in ItemsTried}

ContactsReplies ==
    {ToolMissing}
        \cup {ToolRan(1, 1, <<>>, e, <<>>) : e \in Stderrs}
        \cup {ToolRan(1, 0, <<>>, <<>>, items) :
                items \in SeqsUpTo({<<"a">>, <<"b">>}, MaxPaths)}

LimitsTried == (0 - 1)..(MaxPaths + 1)

\* the message both shortcuts adapters raise when the CLI is missing
ShortcutsMissing == <<"The shortcuts CLI was not found. This node requires macOS 12+.">>

\* ListShortcuts.process
ListShortcuts_run(f, proc) ==
    LET how == Outcome(proc, TRUE, 0) IN
    Ran(<<CmdCall(<<Word("shortcuts"), Word("list")>>, proc)>>,
        CASE how = "FileNotFoundError" -> Fail("RuntimeError", ShortcutsMissing)
          [] how = "CalledProcessError" ->
                 Fail("RuntimeError", <<"Failed to list shortcuts: ">> \o proc.stderr)
          [] OTHER -> Ok(parse_shortcuts_list(proc.stdout)))

\* the TemporaryDirectory of one RunShortcut call
TEMP == <<"/", "t">>

\* RunShortcut._materialize_inputs, after the optional input.txt: an asset
\* whose file URI names an existing file is passed as it is, any other is
\* written to input-<n>.dat, n the number of paths so far
RECURSIVE materialize_assets(_, _)
materialize_assets(assets, paths) ==
    IF assets = <<>> THEN paths
    ELSE LET a == Head(assets) IN
         materialize_assets(Tail(assets),
             Append(paths,
                    IF a.path # <<>> /\ a.on_disk THEN a.path
                    ELSE TEMP \o <<"/", "input-">> \o IntText(Len(paths)) \o <<".dat">>))

materialize_inputs(f) ==
    materialize_assets(f.inputs,
                       IF f.input_text # <<>> THEN <<TEMP \o <<"/", "input.txt">>>> ELSE <<>>)

\* a byte that cannot occur in UTF-8, and the replacement character
XFF == "xFF"
FFFD == "uFFFD"

\* a plausible slip: strict decoding replaces like the default mode
decode_utf8_lenient(bytes, mode) ==
    IF mode = "ignore" THEN Ok(SelectSeq(bytes, LAMBDA c : c # XFF))
    ELSE Ok([i \in 1..Len(bytes) |-> IF bytes[i] = XFF THEN FFFD ELSE bytes[i]])

\* bytes.decode("utf-8", errors=mode): every element of the byte text is the
\* encoding of one character, or the invalid byte XFF
decode_utf8(bytes, mode) ==
    CASE mode = "strict" ->
            IF \E i \in 1..Len(bytes) : bytes[i] = XFF
            THEN Fail("UnicodeDecodeError", <<"invalid start byte">>)
            ELSE Ok(bytes)
      [] mode = "replace" ->
            Ok([i \in 1..Len(bytes) |-> IF bytes[i] = XFF THEN FFFD ELSE bytes[i]])
      [] OTHER -> Ok(SelectSeq(bytes, LAMBDA c : c # XFF))

\* what RunShortcut.process does with the output bytes of a successful run
RunShortcut_output(f, output_bytes) ==
    IF f.output_mode = "document"
    THEN [fsops |-> <<"mkdtemp", "create_asset", "rmtree">>,
          out |-> Ok([mode |-> "document", data |-> output_bytes])]
    ELSE LET text == decode_utf8(output_bytes, f.decode_errors) IN
         [fsops |-> <<"mkdtemp", "rmtree">>,
          out |-> IF text.ok THEN Ok([mode |-> "text", data |-> text.value]) ELSE text]

\* a plausible slip: standard output is preferred to the output file
RunShortcut_run_stdoutFirst(f, proc) ==
    IF Blank(f.shortcut) THEN Raised("ValueError", <<"shortcut is required">>)
    ELSE LET cmd == build_command(f.shortcut, materialize_inputs(f),
                                  TEMP \o <<"/", "output">>, f.output_type)
             how == Outcome(proc, TRUE, f.timeout_seconds)
             file == IF proc.shape.items # <<>> THEN proc.shape.items[1] ELSE <<>>
             done == RunShortcut_output(f, IF proc.stdout # <<>> THEN proc.stdout ELSE file)
         IN IF how = "completed"
            THEN RanFs(<<CmdCall(cmd, proc)>>, done.fsops, done.out)
            ELSE RanFs(<<CmdCall(cmd, proc)>>, <<"mkdtemp", "rmtree">>,
                       Fail("RuntimeError", <<"Failed to run shortcut: ">> \o proc.stderr))

\* RunShortcut.process.  The reply's shape holds the content of the output
\* file when the shortcut wrote one, and nothing when the file is absent;
\* the returned reference is its mode and the bytes or text it holds.  The
\* temporary directory is removed when the with block is left.
RunShortcut_run(f, proc) ==
    IF Blank(f.shortcut) THEN Raised("ValueError", <<"shortcut is required">>)
    ELSE LET cmd == build_command(f.shortcut, materialize_inputs(f),
                                  TEMP \o <<"/", "output">>, f.output_type)
             how == Outcome(proc, TRUE, f.timeout_seconds)
             file == IF proc.shape.items # <<>> THEN proc.shape.items[1] ELSE <<>>
             output_bytes == IF file # <<>> THEN file ELSE proc.stdout
             done == RunShortcut_output(f, output_bytes)
         IN IF how = "completed"
            THEN RanFs(<<CmdCall(cmd, proc)>>, done.fsops, done.out)
            ELSE RanFs(<<CmdCall(cmd, proc)>>, <<"mkdtemp", "rmtree">>,
               CASE how = "FileNotFoundError" -> Fail("RuntimeError", ShortcutsMissing)
                 [] how = "TimeoutExpired" ->
                        Fail("RuntimeError",
                             <<"Shortcut timed out after ">>
                                 \o IntText(f.timeout_seconds) \o <<"s">>)
                 [] OTHER ->
                        Fail("RuntimeError", <<"Failed to run shortcut: ">> \o proc.stderr))

\* a plausible slip: the script runner's failure is not passed over
QuitApplication_run_strict(f, proc) ==
    IF Blank(f.app_name) THEN Raised("ValueError", <<"app_name is required">>)
    ELSE RunThen(Script("QuitApplication",
                        <<escape_for_applescript(f.app_name),
                          IF f.save_changes THEN <<"yes">> ELSE <<"no">> >>),
                 proc, TRUE)

\* QuitApplication.process: a RuntimeError of the script runner is passed
\* over, any other exception leaves the call
QuitApplication_run(f, proc) ==
    IF Blank(f.app_name) THEN Raised("ValueError", <<"app_name is required">>)
    ELSE LET script == Script("QuitApplication",
                              <<escape_for_applescript(f.app_name),
                                IF f.save_changes THEN <<"yes">> ELSE <<"no">> >>)
             r == run_osascript(script, proc)
         IN Ran(<<OsaCall(script, proc)>>,
                IF r.ok \/ r.error.type = "RuntimeError" THEN Ok(TRUE) ELSE r)

\* PostNotification.process: its own subprocess.run of osascript; only
\* CalledProcessError is caught
PostNotification_run(f, proc) ==
    LET part(kw, text) == [part |-> kw, text |-> text]
        subtitle == escape_for_applescript(f.subtitle)
        sound_name == escape_for_applescript(f.sound_name)
        script == Script("PostNotification",
                         <<part("display notification", escape_for_applescript(f.message)),
                           part("with title", escape_for_applescript(f.title))>>
                             \o (IF subtitle # <<>>
                                 THEN <<part("subtitle", subtitle)>> ELSE <<>>)
                             \o (IF sound_name # <<>>
                                 THEN <<part("sound name", sound_name)>> ELSE <<>>))
        how == Outcome(proc, TRUE, 0)
    IN Ran(<<OsaCall(script, proc)>>,
           CASE how = "FileNotFoundError" -> Fail("FileNotFoundError", <<"osascript">>)
             [] how = "CalledProcessError" ->
                    Fail("RuntimeError", <<"Failed to post notification: ">> \o proc.stderr)
             [] OTHER -> Ok(TRUE))

\* a plausible slip: curl is asked even when dig has answered
GetPublicIP_run_bothAlways(f, dig, curl) ==
    LET c1 == CmdCall(<<Word("dig"), Word("+short"), Word("myip.opendns.com"),
                        Word("@resolver1.opendns.com")>>, dig)
        c2 == CmdCall(<<Word("curl"), Word("-s"), Word("--max-time"), Word("5"),
                        Word("https://api.ipify.org")>>, curl)
    IN IF Outcome(dig, FALSE, 10) = "completed" /\ dig.exit = 0 /\ ~Blank(dig.stdout)
       THEN Ran(<<c1, c2>>, Ok(Strip(dig.stdout)))
       ELSE IF Outcome(curl, FALSE, 10) = "completed" /\ curl.exit = 0
       THEN Ran(<<c1, c2>>, Ok(Strip(curl.stdout)))
       ELSE Ran(<<c1, c2>>, Ok(<<>>))

\* GetPublicIP.process: dig, then curl when dig gave nothing; both with
\* timeout=10 and without check
GetPublicIP_run(f, dig, curl) ==
    LET c1 == CmdCall(<<Word("dig"), Word("+short"), Word("myip.opendns.com"),
                        Word("@resolver1.opendns.com")>>, dig)
        c2 == CmdCall(<<Word("curl"), Word("-s"), Word("--max-time"), Word("5"),
                        Word("https://api.ipify.org")>>, curl)
    IN IF Outcome(dig, FALSE, 10) = "completed" /\ dig.exit = 0 /\ ~Blank(dig.stdout)
       THEN Ran(<<c1>>, Ok(Strip(dig.stdout)))
       ELSE IF Outcome(curl, FALSE, 10) = "completed" /\ curl.exit = 0
       THEN Ran(<<c1, c2>>, Ok(Strip(curl.stdout)))
       ELSE Ran(<<c1, c2>>, Ok(<<>>))

\* GetLocalIP.process: ipconfig getifaddr en0, then en1; a missing
\* executable ends the call with ""
GetLocalIP_run(f, en0, en1) ==
    LET c1 == CmdCall(<<Word("ipconfig"), Word("getifaddr"), Word("en0")>>, en0)
        c2 == CmdCall(<<Word("ipconfig"), Word("getifaddr"), Word("en1")>>, en1)
    IN IF Outcome(en0, FALSE, 0) = "FileNotFoundError" THEN Ran(<<c1>>, Ok(<<>>))
       ELSE IF en0.exit = 0 /\ ~Blank(en0.stdout) THEN Ran(<<c1>>, Ok(Strip(en0.stdout)))
       ELSE IF Outcome(en1, FALSE, 0) = "FileNotFoundError" THEN Ran(<<c1, c2>>, Ok(<<>>))
       ELSE IF en1.exit = 0 /\ ~Blank(en1.stdout)
       THEN Ran(<<c1, c2>>, Ok(Strip(en1.stdout)))
       ELSE Ran(<<c1, c2>>, Ok(<<>>))

AVG == <<"a", "v", "g">>
KEY_SSID == <<"S", "S", "I", "D">>
KEY_BSSID == <<"B", "S", "S", "I", "D">>
KEY_CHANNEL == <<"c", "h", "a", "n", "n", "e", "l">>
KEY_RSSI == <<"a", "g", "r", "C", "t", "l", "R", "S", "S", "I">>
KEY_NOISE == <<"a", "g", "r", "C", "t", "l", "N", "o", "i", "s", "e">>

\* `sub in s`
Contains(s, sub) == Find(s, sub, 1) # 0

\* s.split(d, 1): at most one split
SplitOnce(s, d) ==
    LET i == Find(s, d, 1) IN
    IF i = 0 THEN <<s>> ELSE <<SubSeq(s, 1, i - 1), SubSeq(s, i + Len(d), Len(s))>>

\* int(s) for the forms tried: surrounding whitespace, an optional sign and
\* decimal digits; anything else is a ValueError
ParseInt(s) ==
    LET t == Strip(s)
        signed == t # <<>> /\ Head(t) \in {"-", "+"}
        digits == IF signed THEN Tail(t) ELSE t
    IN IF IsDigits(digits)
       THEN [ok |-> TRUE,
             value |-> IF signed /\ Head(t) = "-" THEN 0 - ToInt(digits) ELSE ToInt(digits)]
       ELSE [ok |-> FALSE, value |-> 0]

\* s without its trailing zeros
RECURSIVE DropZeros(_)
DropZeros(s) ==
    IF s # <<>> /\ s[Len(s)] = "0" THEN DropZeros(SubSeq(s, 1, Len(s) - 1)) ELSE s

\* float(s) for the forms tried: surrounding whitespace, digits with at most
\* one point and at least one digit; the value is its whole part and its
\* significant fraction digits
ParseFloat(s) ==
    LET t == Strip(s)
        halves == SplitOnce(t, <<".">>)
        whole == halves[1]
        frac == IF Len(halves) = 2 THEN halves[2] ELSE <<>>
    IN IF /\ whole \o frac # <<>>
          /\ \A i \in 1..Len(whole) : IsDigit(whole[i])
          /\ \A i \in 1..Len(frac) : IsDigit(frac[i])
       THEN [ok |-> TRUE, value |-> [whole |-> ToInt(whole), frac |-> DropZeros(frac)]]
       ELSE [ok |-> FALSE, value |-> [whole |-> 0, frac |-> <<>>]]

ZeroMs == [whole |-> 0, frac |-> <<>>]

\* the loop of PingHost.process over the output lines: the last line that
\* holds "avg", an "=" and a second "/"-separated number sets avg_time
RECURSIVE ping_avg(_, _)
ping_avg(lines, avg) ==
    IF lines = <<>> THEN avg
    ELSE LET line == Head(lines)
             parts == Split(line, <<"=">>)
             times == IF Len(parts) > 1 THEN Split(Strip(parts[2]), <<"/">>) ELSE <<>>
             num == IF Len(times) > 1 THEN ParseFloat(times[2]) ELSE ParseFloat(<<>>)
         IN ping_avg(Tail(lines),
                     IF Contains(Lower(line), AVG) /\ num.ok THEN num.value ELSE avg)

\* PingHost.process: no check, timeout = self.timeout + 5; an expired
\* timeout is returned as an unreachable host
PingHost_run(f, proc) ==
    IF Blank(f.host) THEN Raised("ValueError", <<"host is required">>)
    ELSE LET cmd == <<Word("ping"), Word("-c"), IntText(f.count),
                      Word("-t"), IntText(f.timeout), f.host>>
             how == Outcome(proc, FALSE, f.timeout + 5)
         IN Ran(<<CmdCall(cmd, proc)>>,
                CASE how = "FileNotFoundError" ->
                         Fail("RuntimeError", <<"ping command not found">>)
                  [] how = "TimeoutExpired" ->
                         Ok([is_reachable |-> FALSE, avg_ms |-> ZeroMs,
                             output |-> <<"Timeout">>])
                  [] OTHER ->
                         Ok([is_reachable |-> proc.exit = 0,
                             avg_ms |-> ping_avg(Split(proc.stdout, <<NL>>), ZeroMs),
                             output |-> proc.stdout]))

NoWiFi ==
    [is_connected |-> FALSE, ssid |-> <<>>, bssid |-> <<>>,
     channel |-> 0, rssi |-> 0, noise |-> 0]

\* the loop of GetWiFiStatus.process over the "key: value" lines
RECURSIVE wifi_info(_, _)
wifi_info(lines, info) ==
    IF lines = <<>> THEN info
    ELSE LET line == Strip(Head(lines))
             kv == SplitOnce(line, <<":">>)
             key == Strip(kv[1])
             value == IF Len(kv) = 2 THEN Strip(kv[2]) ELSE <<>>
             channel == ParseInt(Split(value, <<",">>)[1])
             number == ParseInt(value)
         IN wifi_info(Tail(lines),
                IF Len(kv) < 2 THEN info
                ELSE IF key = KEY_SSID
                     THEN [info EXCEPT !.ssid = value, !.is_connected = value # <<>>]
                ELSE IF key = KEY_BSSID THEN [info EXCEPT !.bssid = value]
                ELSE IF key = KEY_CHANNEL
                     THEN (IF channel.ok THEN [info EXCEPT !.channel = channel.value]
                           ELSE info)
                ELSE IF key = KEY_RSSI
                     THEN (IF number.ok THEN [info EXCEPT !.rssi = number.value] ELSE info)
                ELSE IF key = KEY_NOISE
                     THEN (IF number.ok THEN [info EXCEPT !.noise = number.value] ELSE info)
                ELSE info)

\* GetWiFiStatus.process: airport -I without check and without timeout; a
\* missing executable and a non-zero exit both give the defaults
GetWiFiStatus_run(f, proc) ==
    LET how == Outcome(proc, FALSE, 0) IN
    Ran(<<CmdCall(<<Word("airport"), Word("-I")>>, proc)>>,
        IF how = "FileNotFoundError" \/ proc.exit # 0 THEN Ok(NoWiFi)
        ELSE Ok(wifi_info(Split(Strip(proc.stdout), <<NL>>), NoWiFi)))

SEP_EQ == <<SP, "=", SP>>
AC_POWER == <<"A", "C", SP, "P", "o", "w", "e", "r">>
PERCENT == <<"%">>
CHARGING == <<"c", "h", "a", "r", "g", "i", "n", "g">>
DISCHARGING == <<"d", "i", "s", "c", "h", "a", "r", "g", "i", "n", "g">>
REMAINING == <<SP, "r", "e", "m", "a", "i", "n", "i", "n", "g">>

\* res[key] = value on a dict kept as the list of its items
DictPut(d, k, v) ==
    IF \E i \in 1..Len(d) : d[i].key = k
    THEN [i \in 1..Len(d) |-> IF d[i].key = k THEN [key |-> k, value |-> v] ELSE d[i]]
    ELSE Append(d, [key |-> k, value |-> v])

\* SpotlightMetadata._parse_mdls
RECURSIVE mdls_items(_, _)
mdls_items(lines, res) ==
    IF lines = <<>> THEN res
    ELSE LET kv == SplitOnce(Head(lines), SEP_EQ) IN
         mdls_items(Tail(lines),
                    IF Len(kv) < 2 THEN res ELSE DictPut(res, Strip(kv[1]), Strip(kv[2])))

parse_mdls(output) == mdls_items(SplitLines(output), <<>>)

\* SpotlightMetadata.process: the file is first brought to the workspace
SpotlightMetadata_run(f, proc) ==
    IF ~f.file.materialized
    THEN Raised("RuntimeError", <<"Failed to materialize file to workspace for mdls">>)
    ELSE LET cmd == <<Word("mdls")>>
                        \o Concat([i \in 1..Len(f.keys) |-> <<Word("-name"), f.keys[i]>>])
                        \o <<f.file.path>>
             how == Outcome(proc, TRUE, 0)
         IN Ran(<<CmdCall(cmd, proc)>>,
                CASE how = "FileNotFoundError" ->
                         Fail("RuntimeError", <<"mdls not found (this node requires macOS).">>)
                  [] how = "CalledProcessError" ->
                         Fail("RuntimeError",
                              <<"Spotlight metadata failed: ">> \o proc.stderr)
                  [] OTHER -> Ok(parse_mdls(proc.stdout)))

\* last position of the run of digits that starts at i
RECURSIVE RunEnd(_, _)
RunEnd(s, i) == IF i < Len(s) /\ IsDigit(s[i + 1]) THEN RunEnd(s, i + 1) ELSE i

\* re.search(r"(\d+)%", s): start of the leftmost match from i on, 0 if none
RECURSIVE PercentFrom(_, _)
PercentFrom(s, i) ==
    IF i > Len(s) THEN 0
    ELSE IF IsDigit(s[i]) /\ RunEnd(s, i) < Len(s) /\ s[RunEnd(s, i) + 1] = "%" THEN i
    ELSE PercentFrom(s, i + 1)

\* whether r"(\d+:\d+) remaining" matches at i, and where its group ends
TimeEnd(s, i) ==
    IF ~IsDigit(s[i]) THEN 0
    ELSE LET e1 == RunEnd(s, i) IN
         IF ~(e1 + 2 <= Len(s) /\ s[e1 + 1] = ":" /\ IsDigit(s[e1 + 2])) THEN 0
         ELSE LET e2 == RunEnd(s, e1 + 2) IN
              IF e2 + Len(REMAINING) <= Len(s)
                 /\ SubSeq(s, e2 + 1, e2 + Len(REMAINING)) = REMAINING
              THEN e2 ELSE 0

RECURSIVE TimeFrom(_, _)
TimeFrom(s, i) ==
    IF i > Len(s) THEN 0
    ELSE IF TimeEnd(s, i) # 0 THEN i
    ELSE TimeFrom(s, i + 1)

NoBattery ==
    [percentage |-> 0, is_charging |-> FALSE, is_on_ac |-> FALSE, time_remaining |-> <<>>]

\* the loop of GetBatteryStatus.process over the lines of `pmset -g batt`
RECURSIVE battery_info(_, _)
battery_info(lines, info) ==
    IF lines = <<>> THEN info
    ELSE LET line == Head(lines)
             ac == [info EXCEPT !.is_on_ac = @ \/ Contains(line, AC_POWER)]
             p == PercentFrom(line, 1)
             t == TimeFrom(line, 1)
             pct == IF p # 0
                    THEN [ac EXCEPT !.percentage = ToInt(SubSeq(line, p, RunEnd(line, p)))]
                    ELSE ac
             chg == IF Contains(Lower(line), CHARGING)
                    THEN [pct EXCEPT !.is_charging = TRUE]
                    ELSE IF Contains(Lower(line), DISCHARGING)
                    THEN [pct EXCEPT !.is_charging = FALSE]
                    ELSE pct
             rem == IF t # 0
                    THEN [chg EXCEPT !.time_remaining = SubSeq(line, t, TimeEnd(line, t))]
                    ELSE chg
         IN battery_info(Tail(lines), IF Contains(line, PERCENT) THEN rem ELSE ac)

\* GetBatteryStatus.process: only CalledProcessError is caught
GetBatteryStatus_run(f, proc) ==
    LET how == Outcome(proc, TRUE, 0) IN
    Ran(<<CmdCall(<<Word("pmset"), Word("-g"), Word("batt")>>, proc)>>,
        CASE how = "FileNotFoundError" -> Fail("FileNotFoundError", <<"pmset">>)
          [] how = "CalledProcessError" ->
                 Fail("RuntimeError", <<"Failed to get battery status: ">> \o proc.stderr)
          [] OTHER -> Ok(battery_info(Split(Strip(proc.stdout), <<NL>>), NoBattery)))

\* the script of SendAttachment.process: its statements that carry a field
\* or send something, in the order of the script
SendAttachment_script(f) ==
    LET part(kw, text) == [part |-> kw, text |-> text] IN
    Script("SendAttachment",
           <<part("buddy", escape_for_applescript(f.recipient)),
             part("POSIX file", escape_for_applescript(f.file_path))>>
               \o (IF ~Blank(f.message)
                   THEN <<part("send", escape_for_applescript(f.message))>> ELSE <<>>)
               \o <<part("send theAttachment", <<>>)>>)

\* a plausible slip: the file is looked up before the fields are checked
SendAttachment_run_existsFirst(f, proc) ==
    IF ~f.on_disk THEN Raised("ValueError", <<"File not found: ">> \o f.file_path)
    ELSE IF Blank(f.recipient) THEN Raised("ValueError", <<"Recipient is required">>)
    ELSE IF Blank(f.file_path) THEN Raised("ValueError", <<"File path is required">>)
    ELSE RunThen(SendAttachment_script(f), proc, TRUE)

\* SendAttachment.process: on_disk is whether Path(file_path).exists()
SendAttachment_run(f, proc) ==
    IF Blank(f.recipient) THEN Raised("ValueError", <<"Recipient is required">>)
    ELSE IF Blank(f.file_path) THEN Raised("ValueError", <<"File path is required">>)
    ELSE IF ~f.on_disk THEN Raised("ValueError", <<"File not found: ">> \o f.file_path)
    ELSE RunThen(SendAttachment_script(f), proc, TRUE)

----------------------------------------------------------------------------
(* Environment of the command adapters *)

Assets == {[path |-> <<"f">>, on_disk |-> TRUE], [path |-> <<>>, on_disk |-> FALSE]}
Files == {[path |-> <<"p">>, materialized |-> TRUE], [path |-> <<>>, materialized |-> FALSE]}
QuotedTexts == {<<>>, <<"a">>, <<QT, "a">>}

ToolFields(n) ==
    CASE n = "RunShortcut" ->
            [shortcut : ShortcutNames \cup {<<SP>>},
             inputs : SeqsUpTo(Assets, 1),
             input_text : {<<>>, <<"i">>},
             output_type : OutputTypes,
             output_mode : {"text", "document"},
             decode_errors : {"strict", "replace", "ignore"},
             timeout_seconds : 0..2]
      [] n = "SpotlightSearch" ->
            [query : {<<>>, <<SP>>, <<"a">>},
             limit : LimitsTried,
             only_in : {<<>>, <<"~">>, <<SP, "d", SP>>}]
      [] n = "SearchContacts" ->
            [query : {<<>>, <<SP>>, <<"a">>},
             limit : LimitsTried,
             include_emails : BOOLEAN,
             include_phones : {TRUE}]
      [] n = "SpotlightMetadata" -> [file : Files, keys : SeqsUpTo({<<"k">>}, 1)]
      [] n = "PingHost" ->
            [host : {<<>>, <<"h">>}, count : {0, 1, 10, 11}, timeout : {0, 1, 30, 31}]
      [] n = "QuitApplication" -> [app_name : TargetTexts, save_changes : BOOLEAN]
      [] n = "PostNotification" ->
            [title : QuotedTexts, subtitle : {<<>>, <<"s">>},
             message : QuotedTexts, sound_name : {<<>>, <<QT>>}]
      [] n = "SendAttachment" ->
            [recipient : {<<>>, <<"a">>}, file_path : {<<SP>>, <<QT, "f">>},
             message : {<<>>, <<SP>>, <<QT>>}, on_disk : BOOLEAN]
      [] n = "AddPhotoToAlbum" ->
            [photo_id : {<<>>, <<"1">>, <<QT, "1">>}, album_name : QuotedTexts]
      [] n = "ImportToPhotos" -> [skip_duplicate : BOOLEAN]
      [] OTHER -> NodeFields(n)

\* outcomes of a plain command: missing, failing, or printing one of outs
CmdProcs(outs, durations) ==
    {ToolMissing}
        \cup {ToolRan(d, 1, <<>>, e, <<>>) : d \in durations, e \in Stderrs}
        \cup {ToolRan(d, 0, o, <<>>, <<>>) : d \in durations, o \in outs}

ListOutputs == {<<>>, <<NL, SP, "a", SP, NL, NL, "b", NL>>}
MdlsOutputs == {<<>>, <<"k">> \o SEP_EQ \o <<"v", NL, "x", NL, "k">> \o SEP_EQ \o <<"w">>}
WiFiOutputs ==
    {<<>>,
     <<SP>> \o KEY_SSID \o <<":", SP, "n", NL>> \o KEY_CHANNEL \o <<":", SP, "6", ",", "1", NL>>
         \o KEY_RSSI \o <<":", SP, "-", "5", NL>> \o KEY_NOISE \o <<":", SP, "x">>}
PingOutputs == {<<>>, AVG \o SEP_EQ \o <<"1", "/", "2", ".", "5", "0", "/", "3", NL>>}
BatteryOutputs ==
    {<<>>,
     AC_POWER \o <<NL, "8", "5", "%", ";", SP>> \o CHARGING \o <<";", SP, "1", ":", "2", "3">>
         \o REMAINING,
     <<"7", "%", ";", SP>> \o DISCHARGING,
     AC_POWER \o <<NL, "9", "%", ";", SP, "n", "o", "t", SP>> \o CHARGING}
IpOutputs == {<<>>, <<SP, NL>>, <<"1", ".", "2", NL>>}

\* a shortcut run: it may write the output file, print, both or neither
ShortcutProcs ==
    {ToolMissing}
        \cup {ToolRan(d, 1, <<>>, e, <<>>) : d \in 1..3, e \in Stderrs}
        \cup {ToolRan(d, 0, o, <<>>, file) :
                d \in 1..3, o \in {<<>>, <<"o">>, <<"o", XFF>>},
                file \in {<<>>, <<<<>>>>, <<<<"f">>>>, <<<<XFF, "f">>>>}}

ToolNodes ==
    {"ListShortcuts", "RunShortcut", "SpotlightSearch", "SearchContacts",
     "SpotlightMetadata", "GetBatteryStatus", "PingHost", "GetWiFiStatus",
     "GetPublicIP", "GetLocalIP", "QuitApplication", "PostNotification",
     "SendAttachment", "GetFrontmostApplication", "MarkAsRead", "AddPhotoToAlbum",
     "SearchMessages"}

NextTools ==
    \/ \E n \in ToolNodes : \E f \in ToolFields(n) : Construct(n, f)
    \/ \E proc \in CmdProcs(ListOutputs, {1}) : Process("ListShortcuts", ListShortcuts_run(fields, proc))
    \/ \E proc \in ShortcutProcs : Process("RunShortcut", RunShortcut_run(fields, proc))
    \/ \E proc \in MdfindProcs : Process("SpotlightSearch", SpotlightSearch_run(fields, proc))
    \/ \E proc \in ContactsReplies : Process("SearchContacts", SearchContacts_run(fields, proc))
    \/ \E proc \in CmdProcs(MdlsOutputs, {1}) : Process("SpotlightMetadata", SpotlightMetadata_run(fields, proc))
    \/ \E proc \in CmdProcs(BatteryOutputs, {1}) : Process("GetBatteryStatus", GetBatteryStatus_run(fields, proc))
    \/ \E proc \in CmdProcs(PingOutputs, {1, 7, 36}) : Process("PingHost", PingHost_run(fields, proc))
    \/ \E proc \in CmdProcs(WiFiOutputs, {1}) : Process("GetWiFiStatus", GetWiFiStatus_run(fields, proc))
    \/ \E dig, curl \in CmdProcs(IpOutputs, {1, 11}) : Process("GetPublicIP", GetPublicIP_run(fields, dig, curl))
    \/ \E en0, en1 \in CmdProcs(IpOutputs, {1}) : Process("GetLocalIP", GetLocalIP_run(fields, en0, en1))
    \/ \E proc \in Procs : Process("QuitApplication", QuitApplication_run(fields, proc))
    \/ \E proc \in Procs : Process("PostNotification", PostNotification_run(fields, proc))
    \/ \E proc \in Procs : Process("SendAttachment", SendAttachment_run(fields, proc))
    \/ \E proc \in Procs : GetFrontmostApplication_process(proc)
    \/ \E proc \in Procs : MarkAsRead_process(proc)
    \/ \E proc \in Procs : AddPhotoToAlbum_process(proc)
    \/ \E proc \in Procs : SearchMessages_process(proc)
    \/ Release

SpecTools == InitIdle /\ [][NextTools]_vars

----------------------------------------------------------------------------
(* Adapters that convert or store media: temporary files, assets, decoding *)

\* ImportToPhotos.process: the image is written to a NamedTemporaryFile
\* (delete=False) before the try block; written is whether f.write
\* succeeded.  The finally clause unlinks the file.
ImportToPhotos_run(f, written, proc) ==
    IF ~written THEN RanFs(<<>>, <<"create">>, Fail("OSError", <<"write failed">>))
    ELSE LET script == Script("ImportToPhotos",
                              <<escape_for_applescript(TempPng),
                                IF f.skip_duplicate THEN <<"yes">> ELSE <<"no">> >>)
             r == run_osascript(script, proc)
         IN RanFs(<<OsaCall(script, proc)>>, <<"create", "unlink">>,
                  IF r.ok THEN Ok(TRUE) ELSE r)

\* ImportToAlbum.process with the outcome of f.write: the file is written
\* after the album_name check and before the try block
ImportToAlbum_write(f, written, proc) ==
    IF ~Blank(f.album_name) /\ ~written
    THEN RanFs(<<>>, <<"create">>, Fail("OSError", <<"write failed">>))
    ELSE ImportToAlbum_run(f, proc)

\* what the pasteboard holds for a type: nothing, bytes NSImage cannot read,
\* an image without a PNG representation, or an image
ClipData == {"none", "garbage", "unconvertible", "image"}
Clipboards == [png : ClipData, tiff : ClipData]

\* GetClipboardImage.process: the PNG data, else the TIFF data
GetClipboardImage_run(f, board) ==
    LET data == IF board.png # "none" THEN board.png ELSE board.tiff
        read == <<CmdCall(<<Word("dataForType_")>>, board)>>
    IN CASE data = "none" ->
               Ran(read, Fail("RuntimeError", <<"No image data found on clipboard">>))
         [] data = "garbage" ->
               Ran(read, Fail("RuntimeError", <<"Failed to decode clipboard image">>))
         [] data = "unconvertible" ->
               Ran(read, Fail("RuntimeError", <<"Failed to convert clipboard image to PNG">>))
         [] OTHER -> Ran(read, Ok([image |-> "png"]))

MediaNodes == {"RunShortcut", "GetClipboardImage", "ImportToPhotos", "ImportToAlbum"}

NextMedia ==
    \/ \E n \in MediaNodes : \E f \in ToolFields(n) : Construct(n, f)
    \/ \E proc \in ShortcutProcs : Process("RunShortcut", RunShortcut_run(fields, proc))
    \/ \E board \in Clipboards :
          Process("GetClipboardImage", GetClipboardImage_run(fields, board))
    \/ \E written \in BOOLEAN : \E proc \in Procs :
          Process("ImportToPhotos", ImportToPhotos_run(fields, written, proc))
    \/ \E written \in BOOLEAN : \E proc \in Procs :
          Process("ImportToAlbum", ImportToAlbum_write(fields, written, proc))
    \/ Release

SpecMedia == InitIdle /\ [][NextMedia]_vars

----------------------------------------------------------------------------
(* Window and application adapters.  The environment is the on-screen      *)
(* window list of Quartz and the running applications of NSWorkspace, both *)
(* in the order the framework lists them.                                   *)

\* window_dict.get(key): number, name, owner and layer of a listed window
Windows == [id : {1, 2}, name : {<<>>, <<"w">>}, owner : {<<"A">>, <<"B">>}, layer : {0, 25}]
Apps == [name : {<<"A">>, <<"B">>}, bundle : {<<"a">>, <<"b">>}]

\* index of the first element of lst that satisfies Test, 0 if none: the
\* for loop that ends with break at the first match
FirstIndex(lst, Test(_)) ==
    IF \E i \in 1..Len(lst) : Test(lst[i])
    THEN CHOOSE i \in 1..Len(lst) : Test(lst[i]) /\ \A j \in 1..(i - 1) : ~Test(lst[j])
    ELSE 0

\* str(self.window_name or self.window_id) in the message
WindowLabel(f) == IF f.window_name # <<>> THEN f.window_name ELSE IntText(f.window_id)

\* a plausible slip: the name is matched before the id
CaptureWindow_run_nameFirst(f, env) ==
    LET ws == env.windows
        i == IF f.window_name # <<>>
             THEN FirstIndex(ws, LAMBDA w : w.name = f.window_name
                                     /\ (f.owner_name = <<>> \/ w.owner = f.owner_name))
             ELSE IF f.window_id > 0 THEN FirstIndex(ws, LAMBDA w : w.id = f.window_id)
             ELSE 0
        listed == <<CmdCall(<<Word("CGWindowListCopyWindowInfo")>>, env)>>
    IN IF i = 0
       THEN Ran(listed, Fail("RuntimeError", <<"Window not found: ">> \o WindowLabel(f)))
       ELSE IF ~env.captured
       THEN Ran(listed, Fail("RuntimeError", <<"Failed to capture window">>))
       ELSE Ran(listed, Ok([image_of |-> ws[i].id]))

\* CaptureWindow.process: env.captured is whether CGWindowListCreateImage
\* gave an image; the result is the image of the target window
CaptureWindow_run(f, env) ==
    LET ws == env.windows
        i == IF f.window_id > 0 THEN FirstIndex(ws, LAMBDA w : w.id = f.window_id)
             ELSE IF f.window_name # <<>>
             THEN FirstIndex(ws, LAMBDA w : w.name = f.window_name
                                     /\ (f.owner_name = <<>> \/ w.owner = f.owner_name))
             ELSE 0
        listed == <<CmdCall(<<Word("CGWindowListCopyWindowInfo")>>, env)>>
    IN IF i = 0
       THEN Ran(listed, Fail("RuntimeError", <<"Window not found: ">> \o WindowLabel(f)))
       ELSE IF ~env.captured
       THEN Ran(listed, Fail("RuntimeError", <<"Failed to capture window">>))
       ELSE Ran(listed, Ok([image_of |-> ws[i].id]))

\* FocusApplication.process: env.activated is what activateWithOptions_
\* answers
FocusApplication_run(f, env) ==
    LET apps == env.apps
        i == IF f.bundle_id # <<>> THEN FirstIndex(apps, LAMBDA a : a.bundle = f.bundle_id)
             ELSE FirstIndex(apps, LAMBDA a : a.name = f.application_name)
        listed == <<CmdCall(<<Word("runningApplications")>>, env)>>
    IN IF i = 0
       THEN Ran(listed,
                Fail("RuntimeError",
                     <<"Application not found: ">>
                         \o (IF f.bundle_id # <<>> THEN f.bundle_id ELSE f.application_name)))
       ELSE Ran(listed, Ok([application |-> apps[i].name, bundle_id |-> apps[i].bundle,
                            activated |-> env.activated]))

\* GetActiveWindow.process: env.front is the frontmost application, with
\* present FALSE when there is none
GetActiveWindow_run(f, env) ==
    LET front == env.front
        active_windows == SelectSeq(env.windows,
                                    LAMBDA w : w.owner = front.name /\ w.layer = 0)
        listed == <<CmdCall(<<Word("CGWindowListCopyWindowInfo")>>, env)>>
    IN IF ~front.present
       THEN Ran(<<CmdCall(<<Word("frontmostApplication")>>, env)>>,
                Ok([error |-> <<"No active application found">>]))
       ELSE IF active_windows = <<>>
       THEN Ran(listed, Ok([application |-> front.name, bundle_id |-> front.bundle,
                            windows |-> <<>>]))
       ELSE Ran(listed, Ok([application |-> front.name, bundle_id |-> front.bundle,
                            window |-> [name |-> active_windows[1].name,
                                        bounds |-> [of |-> active_windows[1].id],
                                        window_id |-> active_windows[1].id]]))

\* the environments tried
Screens ==
    [windows : SeqsUpTo(Windows, MaxListed), captured : BOOLEAN,
     front : {[present |-> FALSE, name |-> <<>>, bundle |-> <<>>],
              [present |-> TRUE, name |-> <<"A">>, bundle |-> <<"a">>]}]
Workspaces == [apps : SeqsUpTo(Apps, MaxListed), activated : BOOLEAN]

WindowFields(n) ==
    CASE n = "CaptureWindow" ->
            [window_id : {0, 1, 3}, window_name : {<<>>, <<"w">>},
             owner_name : {<<>>, <<"A">>}]
      [] n = "FocusApplication" ->
            [application_name : {<<>>, <<"A">>}, bundle_id : {<<>>, <<"b">>, <<"c">>}]
      [] OTHER -> {NoValue}

WindowNodes == {"GetActiveWindow", "CaptureWindow", "FocusApplication"}

NextWindows ==
    \/ \E n \in WindowNodes : \E f \in WindowFields(n) : Construct(n, f)
    \/ pc = "ready" /\ \E env \in Screens :
          Process("GetActiveWindow", GetActiveWindow_run(fields, env))
    \/ pc = "ready" /\ \E env \in Screens :
          Process("CaptureWindow", CaptureWindow_run(fields, env))
    \/ pc = "ready" /\ \E env \in Workspaces :
          Process("FocusApplication", FocusApplication_run(fields, env))
    \/ Release

SpecWindows == InitIdle /\ [][NextWindows]_vars

----------------------------------------------------------------------------
(* Claims on the command adapters, checked in SpecTools *)

\* the time budget the adapter passes to subprocess.run, 0 for none
Budget(n, f) ==
    CASE n = "RunShortcut" -> f.timeout_seconds
      [] n = "PingHost" -> f.timeout + 5
      [] n = "GetPublicIP" -> 10
      [] OTHER -> 0

Missing(call) == ~call.proc.found
Expired(call) ==
    call.proc.found /\ Budget(node, fields) > 0
        /\ call.proc.duration > Budget(node, fields)
NonZero(call) == call.proc.found /\ ~Expired(call) /\ call.proc.exit # 0
ErrorReply(call) ==
    call.proc.found /\ ~Expired(call) /\ call.proc.exit = 0
        /\ StartsWith(Strip(call.proc.stdout), ERROR)

\* the adapters the claim names: script runner, shortcuts, mdfind, mdls, pmset
SpawningNodes ==
    {"ListShortcuts", "RunShortcut", "SpotlightSearch", "SpotlightMetadata",
     "GetBatteryStatus", "QuitApplication", "SendAttachment",
     "GetFrontmostApplication", "MarkAsRead", "AddPhotoToAlbum", "SearchMessages"}

\* the messages that name the missing tool and a minimum OS version
ToolNotFoundMessages == {ShortcutsMissing}

\* C11: when the executable is missing, every adapter that spawns a
\* subprocess fails with a tool-not-found error naming the tool and the
\* minimum OS version; no raw spawn error escapes and no value is returned.
C11_MissingToolReported ==
    (Finished /\ node \in SpawningNodes /\ \E i \in 1..Len(calls) : Missing(calls[i])) =>
        /\ pc = "raised"
        /\ error.type # "FileNotFoundError"
        /\ error.msg \in ToolNotFoundMessages

\* the errors RunShortcut raises for a failing exit and for a missing CLI
OtherShortcutErrors ==
    {RunShortcut_run(fields, p).error : p \in {q \in ShortcutProcs : ~q.found \/ q.exit # 0}}

BestEffortNodes == {"QuitApplication"}

\* C13: every failed external call (missing executable, expired budget,
\* non-zero exit, "ERROR:" reply) ends the call with an error, except in the
\* best-effort adapters, and nothing is attempted after a failed call.
C13_FailuresSurface ==
    (Finished /\ node \notin BestEffortNodes) =>
        \A i \in 1..Len(calls) :
            (Missing(calls[i]) \/ Expired(calls[i]) \/ NonZero(calls[i])
                \/ ErrorReply(calls[i])) =>
                (pc = "raised" /\ i = Len(calls))

EndedEarly ==
    \/ pc = "raised" /\ calls = <<>>
    \/ node \in {"SpotlightSearch", "SearchContacts"} /\ AllSpace(fields.query)

\* C15: a call that passes validation makes exactly one external call.
C15_ExactlyOneCall ==
    (Finished /\ ~EndedEarly) => Len(calls) = 1

\* the adapters of SpecTools that hand a script to osascript
ScriptNodes ==
    {"QuitApplication", "PostNotification", "SendAttachment",
     "GetFrontmostApplication", "MarkAsRead", "AddPhotoToAlbum", "SearchMessages"}

\* the texts a script puts between double quotes
LiteralTexts(script) ==
    CASE script.template \in {"PostNotification", "SendAttachment"} ->
            {script.slots[i].text : i \in 1..Len(script.slots)}
      [] script.template = "SearchMessages" -> {script.slots[2], script.slots[3]}
      [] script.template = "QuitApplication" -> {script.slots[1]}
      [] OTHER -> {script.slots[i] : i \in 1..Len(script.slots)}

\* t, read as the inside of an AppleScript string literal from position i,
\* holds a double quote that no backslash protects: the literal ends early
RECURSIVE EndsLiteralFrom(_, _)
EndsLiteralFrom(t, i) ==
    IF i > Len(t) THEN FALSE
    ELSE IF t[i] = BS THEN EndsLiteralFrom(t, i + 2)
    ELSE IF t[i] = QT THEN TRUE
    ELSE EndsLiteralFrom(t, i + 1)

EndsLiteral(t) == EndsLiteralFrom(t, 1)

\* C16: every field placed inside a string literal of a script has been
\* escaped: no double quote of a field ends the literal it is placed in.
C16_FieldsAreEscaped ==
    (node \in ScriptNodes) =>
        \A i \in 1..Len(calls) :
            \A t \in LiteralTexts(calls[i].argv[3]) : ~EndsLiteral(t)

\* C19: a SpotlightSearch whose query is empty or only whitespace returns
\* the empty list and does not run mdfind, whatever limit and only_in are.
C19_BlankQueryNoSearch ==
    (Finished /\ node = "SpotlightSearch" /\ AllSpace(fields.query)) =>
        /\ pc = "returned"
        /\ result = <<>>
        /\ calls = <<>>

C19_Witness ==
    /\ pc = "returned"
    /\ node = "SpotlightSearch"
    /\ fields.query = <<SP>>
    /\ fields.limit = MaxPaths
    /\ fields.only_in = <<"~">>
    /\ result = <<>>
    /\ calls = <<>>

\* what the search found, in the order of the reply
FoundItems ==
    IF node = "SpotlightSearch"
    THEN NonEmptyPieces(Split(calls[1].proc.stdout, <<NUL>>))
    ELSE [i \in 1..Len(calls[1].proc.shape.items) |->
             contact_to_dict(calls[1].proc.shape.items[i],
                             fields.include_emails, fields.include_phones)]

\* C20: for every accepted limit (every integer from 0 up) the result of
\* SpotlightSearch and of SearchContacts has at most limit entries, and they
\* are the first ones of the reply, in its order.
C20_LimitIsMaximum ==
    (pc = "returned" /\ node \in {"SpotlightSearch", "SearchContacts"} /\ calls # <<>>) =>
        /\ Len(result) <= fields.limit
        /\ result = Take(FoundItems, fields.limit)

----------------------------------------------------------------------------
(* Claims on single adapters, checked in SpecTools *)

\* what a line of the battery report says about charging
SaysNotCharging(line) ==
    \/ Contains(Lower(line), DISCHARGING)
    \/ Contains(Lower(line), <<"n", "o", "t", SP>> \o CHARGING)
SaysCharging(line) == Contains(Lower(line), CHARGING) /\ ~SaysNotCharging(line)

\* C23: is_charging is true when the battery line says charging and false
\* when it says discharging or not charging; percentage is the integer
\* before the percent sign; is_on_ac is true exactly when a line holds
\* "AC Power".
C23_BatteryState ==
    (pc = "returned" /\ node = "GetBatteryStatus") =>
        LET lines == Split(Strip(calls[1].proc.stdout), <<NL>>)
            batt == {i \in 1..Len(lines) : Contains(lines[i], PERCENT)}
        IN /\ result.is_on_ac = (\E i \in 1..Len(lines) : Contains(lines[i], AC_POWER))
           /\ \A i \in batt :
                /\ SaysCharging(lines[i]) => result.is_charging
                /\ SaysNotCharging(lines[i]) => ~result.is_charging
                /\ PercentFrom(lines[i], 1) # 0 =>
                      result.percentage =
                          ToInt(SubSeq(lines[i], PercentFrom(lines[i], 1),
                                       Find(lines[i], PERCENT, PercentFrom(lines[i], 1)) - 1))

\* the statements of a script that send something
Sends(script) == SelectSeq(script.slots, LAMBDA p : p.part \in {"send", "send theAttachment"})

\* C25: SendAttachment checks the recipient, then the file path, then that
\* the file exists, and fails with a validation error at the first failing
\* check without an external call; otherwise it makes one osascript call
\* whose script sends the text before the attachment when message is not
\* blank and only the attachment otherwise, and returns true only when that
\* call succeeded.
C25_SendAttachmentOrder ==
    (Finished /\ node = "SendAttachment") =>
        IF Blank(fields.recipient)
        THEN pc = "raised" /\ calls = <<>> /\ error.type = "ValueError"
                /\ error.msg = <<"Recipient is required">>
        ELSE IF Blank(fields.file_path)
        THEN pc = "raised" /\ calls = <<>> /\ error.type = "ValueError"
                /\ error.msg = <<"File path is required">>
        ELSE IF ~fields.on_disk
        THEN pc = "raised" /\ calls = <<>> /\ error.type = "ValueError"
                /\ error.msg = <<"File not found: ">> \o fields.file_path
        ELSE /\ Len(calls) = 1
             /\ calls[1].argv[1] = "osascript"
             /\ Sends(calls[1].argv[3]) =
                    (IF ~Blank(fields.message)
                     THEN <<[part |-> "send", text |-> escape_for_applescript(fields.message)]>>
                     ELSE <<>>)
                        \o <<[part |-> "send theAttachment", text |-> <<>>]>>
             /\ IF calls[1].proc.found /\ calls[1].proc.exit = 0
                THEN pc = "returned" /\ result = TRUE
                ELSE pc = "raised"

C25_Witness ==
    /\ pc = "returned"
    /\ node = "SendAttachment"
    /\ fields.message = <<QT>>
    /\ Len(calls) = 1
    /\ Len(Sends(calls[1].argv[3])) = 2
    /\ result = TRUE

\* the command finished within the 10 seconds GetPublicIP allows, exit 0
InTimeZero(proc) == proc.found /\ proc.duration <= 10 /\ proc.exit = 0

\* C27: GetPublicIP runs dig first and returns its trimmed output when dig
\* exits zero with non-blank output; only otherwise it runs curl, and
\* returns curl's trimmed output when curl exits zero, the empty string
\* when curl fails too; it never raises and never starts a third process.
C27_DigThenCurl ==
    (Finished /\ node = "GetPublicIP") =>
        /\ pc = "returned"
        /\ Len(calls) \in {1, 2}
        /\ calls[1].argv[1] = Word("dig")
        /\ IF InTimeZero(calls[1].proc) /\ ~AllSpace(calls[1].proc.stdout)
           THEN Len(calls) = 1 /\ IsTrimOf(result, calls[1].proc.stdout)
           ELSE /\ Len(calls) = 2
                /\ calls[2].argv[1] = Word("curl")
                /\ IF InTimeZero(calls[2].proc)
                   THEN IsTrimOf(result, calls[2].proc.stdout)
                   ELSE result = <<>>

C27_Witness ==
    /\ pc = "returned"
    /\ node = "GetPublicIP"
    /\ Len(calls) = 2
    /\ calls[1].proc.found /\ calls[1].proc.duration > 10
    /\ InTimeZero(calls[2].proc)
    /\ result # <<>>

----------------------------------------------------------------------------
(* Claims checked in SpecMedia *)

\* how often x occurs in the sequence s
Times(s, x) == Cardinality({i \in 1..Len(s) : s[i] = x})

\* the shortcut of a finished RunShortcut call ran to a zero exit in time
ShortcutRan ==
    /\ node = "RunShortcut" /\ calls # <<>>
    /\ calls[1].proc.found
    /\ calls[1].proc.duration <= fields.timeout_seconds
    /\ calls[1].proc.exit = 0

\* the bytes the claim names: the output file when it exists and is not
\* empty, else standard output, else nothing
ResultBytes ==
    LET proc == calls[1].proc IN
    IF proc.shape.items # <<>> /\ proc.shape.items[1] # <<>> THEN proc.shape.items[1]
    ELSE IF proc.stdout # <<>> THEN proc.stdout
    ELSE <<>>

\* C22: a reply that cannot be converted fails with a decode error and
\* returns no value: RunShortcut in text mode with strict decoding on bytes
\* that are not UTF-8 (with replace and ignore it always returns), and
\* GetClipboardImage on clipboard data that is not an image.
C22_DecodeFailureRaises ==
    /\ (Finished /\ ShortcutRan /\ fields.output_mode = "text") =>
          IF fields.decode_errors = "strict" /\ Times(ResultBytes, XFF) > 0
          THEN pc = "raised" /\ result = NoValue /\ error.type = "UnicodeDecodeError"
          ELSE pc = "returned" /\ Times(result.data, XFF) = 0
    /\ (Finished /\ node = "GetClipboardImage") =>
          LET board == calls[1].proc
              data == IF board.png # "none" THEN board.png ELSE board.tiff
          IN data \in {"garbage", "unconvertible"} =>
                /\ pc = "raised" /\ result = NoValue
                /\ error.msg \in {<<"Failed to decode clipboard image">>,
                                  <<"Failed to convert clipboard image to PNG">>}

C22_Witness ==
    /\ pc = "raised"
    /\ ShortcutRan
    /\ fields.output_mode = "text"
    /\ fields.decode_errors = "strict"
    /\ ResultBytes = <<XFF, "f">>
    /\ error.type = "UnicodeDecodeError"

\* C26: after a successful run the result bytes are those of the output
\* file when it exists and is not empty, else standard output, else empty;
\* document mode stores exactly these bytes as one asset, text mode decodes
\* exactly these bytes; a failed run gives no result and creates no asset.
C26_OutputBytesSource ==
    (Finished /\ node = "RunShortcut" /\ calls # <<>>) =>
        IF ~ShortcutRan
        THEN pc = "raised" /\ result = NoValue /\ Times(fsops, "create_asset") = 0
        ELSE IF fields.output_mode = "document"
        THEN /\ pc = "returned"
             /\ Times(fsops, "create_asset") = 1
             /\ result = [mode |-> "document", data |-> ResultBytes]
        ELSE /\ Times(fsops, "create_asset") = 0
             /\ LET text == decode_utf8(ResultBytes, fields.decode_errors) IN
                IF text.ok
                THEN pc = "returned" /\ result = [mode |-> "text", data |-> text.value]
                ELSE pc = "raised" /\ result = NoValue

C26_Witness ==
    /\ pc = "returned"
    /\ ShortcutRan
    /\ fields.output_mode = "document"
    /\ calls[1].proc.stdout = <<"o">>
    /\ calls[1].proc.shape.items = <<<<"f">>>>
    /\ result.data = <<"f">>
    /\ Times(fsops, "create_asset") = 1

\* C29: no temporary file is left behind: when process of ImportToPhotos
\* or ImportToAlbum has ended, a temporary file that was created has been
\* deleted; ImportToAlbum with a blank album_name creates none; RunShortcut
\* has removed its temporary directory on success, failure and timeout.
C29_NoTempLeftBehind ==
    (Finished /\ node \in {"ImportToPhotos", "ImportToAlbum", "RunShortcut"}) =>
        /\ Times(fsops, "create") = Times(fsops, "unlink")
        /\ Times(fsops, "mkdtemp") = Times(fsops, "rmtree")
        /\ (fsops # <<>> => fsops[Len(fsops)] \in {"unlink", "rmtree"})
        /\ (node = "ImportToAlbum" /\ Blank(fields.album_name) => fsops = <<>>)

----------------------------------------------------------------------------
(* Claims on SendMail, checked in Spec *)

\* the comma-separated pieces of `to` that are not blank, trimmed
NonBlankAddresses(to) ==
    LET pieces == Split(to, <<",">>) IN
    [i \in 1..Len(SelectSeq(pieces, LAMBDA a : ~AllSpace(a))) |->
        Strip(SelectSeq(pieces, LAMBDA a : ~AllSpace(a))[i])]

\* C28: the script of SendMail holds one 'make new to recipient' command
\* for each non-blank address of `to`, in order, and no send is issued
\* with zero recipients: every `to` that passes the required-field check
\* gives at least one recipient command.
C28_SendHasRecipients ==
    (Finished /\ node = "SendMail" /\ calls # <<>>) =>
        LET made == calls[1].argv[3].slots.to_recipients
            want == NonBlankAddresses(fields.to)
        IN /\ Len(made) = Len(want)
           /\ \A i \in 1..Len(want) : made[i] = escape_for_applescript(want[i])
           /\ calls[1].argv[3].slots.send => Len(made) >= 1

----------------------------------------------------------------------------
(* Round trip of the delimited reply, checked in SpecParse *)

\* the reply is a serialisation of records: every record has the expected
\* number of fields and is followed by the record delimiter
Serialised(sh) ==
    /\ sh.lead # "free"
    /\ sh.chunks # <<>>
    /\ \A i \in 1..Len(sh.chunks) : sh.chunks[i].kind = "exact"
    /\ sh.trail = "delim"

\* the records that were serialised, each as its list of field values; none
\* of the generated values holds a field or record delimiter
SentRecords(sh, n) == SubSeq(ReplyChunks(sh, n), 1, Len(sh.chunks))

\* C30: records whose field values hold no delimiter, joined by "|||" and
\* each followed by "###MSG###", come back from GetRecentMessages and
\* GetSelectedMailMessages as exactly those records with exactly those
\* field values, in order.
C30_DelimitedRoundTrip ==
    (Parsed /\ node \in {"GetRecentMessages", "GetSelectedMailMessages"}
        /\ Serialised(calls[1].proc.shape)) =>
        LET sent == SentRecords(calls[1].proc.shape, ExpectedFields(node)) IN
        /\ Len(result) = Len(sent)
        /\ \A i \in 1..Len(sent) :
              /\ \A j \in 1..Len(Row(node, result[i])) :
                    Row(node, result[i])[j] = sent[i][j]
              /\ node = "GetRecentMessages" =>
                    result[i].is_from_me = (sent[i][4] = TRUE_TXT)

----------------------------------------------------------------------------
(* Claims checked in SpecWindows *)

\* C21: a mapping returned by GetActiveWindow without an "error" key has
\* the keys "application", "bundle_id" and "window", and its window has the
\* keys "name", "bounds" and "window_id", also when the frontmost
\* application has no normal-layer window.
C21_ActiveWindowKeys ==
    (pc = "returned" /\ node = "GetActiveWindow" /\ "error" \notin DOMAIN result) =>
        /\ {"application", "bundle_id", "window"} \subseteq DOMAIN result
        /\ {"name", "bounds", "window_id"} \subseteq DOMAIN result.window

\* the windows listed to a finished CaptureWindow call
Listed == calls[1].proc.windows

\* the window CaptureWindow has to pick, as an index of the list, 0 for none
TargetWindow ==
    IF fields.window_id > 0
    THEN FirstIndex(Listed, LAMBDA w : w.id = fields.window_id)
    ELSE IF fields.window_name = <<>> THEN 0
    ELSE FirstIndex(Listed,
                    LAMBDA w : w.name = fields.window_name
                        /\ (fields.owner_name # <<>> => w.owner = fields.owner_name))

=============================================================================
